---- MODULE Spec2Model ----
(***************************************************************************)
(* Model of the book-catalog change-detection engine                       *)
(* (scheduler/change_detector.py, scheduler/fingerprinting.py) and of the  *)
(* resumable crawler (crawler/book_crawler.py).                            *)
(*                                                                         *)
(* The specifications of this module:                                      *)
(*   Spec       the reconciler: ChangeDetector.detect_changes over the     *)
(*              books, fingerprints and change_logs collections, with the  *)
(*              upstream site and the other writers of the store as the    *)
(*              environment;                                               *)
(*   SpecCrawl  the crawler: BookCrawler.crawl_all_books with its crawl    *)
(*              state file, process crashes and restarts;                  *)
(*   SpecDiff   the reconciler against further edits of the book pages;    *)
(*   SpecPages, SpecOnce, SpecBatch, SpecWalk  the smaller models: the page *)
(*              count, the one-shot mode and the daily report, the batches  *)
(*              of phase D, the restore walk in numbers;                   *)
(*   SpecLoop   the page loop of crawl_all_books with the two error lists  *)
(*              and the pages it finds empty;                              *)
(*   SpecClean  the fingerprint cleanup job running beside a restore;      *)
(*   SpecFetch  the HTTP requests to the upstream site: the throttler of   *)
(*              the crawler, the retry loops and the second they start in. *)
(***************************************************************************)
EXTENDS Integers, Sequences, FiniteSets, TLC

(***************************************************************************)
(* Bounds of the model.                                                    *)
(***************************************************************************)
\* number of detect_changes runs explored
MaxRuns == 2
\* crawl_all_books invocations
MaxCrawls == 2
\* catalog pages whose fetch fails, over all invocations
MaxPageFailures == 1
\* the catalog of the site: its pages and the books listed on each
TotalPages == 50
BooksPerPage == 20
\* requests counted within one second
MaxStarted == 3
\* the counters of the results a daily report aggregates
MaxCount == 4
\* the books and the batch size of the batch loop
MaxBooks == 5
MaxBatchSize == 3
\* the restore walk: the books the store lacks and the books of one catalog
\* page that can be restored
MaxMissing == 3
MaxRestorable == 2
\* the page loop: the pages of its catalog, the invocations of
\* crawl_all_books and the pages whose request fails
LoopPages == 11
MaxLoopCrawls == 2
MaxLoopFailures == 2

(***************************************************************************)
(* Book records.  Every field value is a string: a price is its decimal    *)
(* text, a rating the text of its BookRating.                              *)
(***************************************************************************)
URLS == {"u1", "u2"}

\* Optional values (Python's None or a value): the empty or the 1-element tuple.
None == <<>>
Some(x) == <<x>>

\* ContentFingerprinter.fingerprint_fields, in the order of the list
fingerprint_fields ==
    <<"name", "description", "category", "price_including_tax",
      "availability", "rating", "number_of_reviews">>

ContentFields == {fingerprint_fields[i] : i \in DOMAIN fingerprint_fields}
PriceFields == {"price_including_tax", "price_excluding_tax"}
AvailabilityFields == {"availability", "number_of_reviews"}
MetadataFields == {"description", "category", "rating", "image_url"}

\* The page of book u as first crawled.
BasePage(u) ==
    [name |-> "title", description |-> "text", category |-> "Poetry",
     price_including_tax |-> "19.99", price_excluding_tax |-> "19.99",
     availability |-> "In stock", rating |-> "3", number_of_reviews |-> "0",
     image_url |-> "cover1", source_url |-> u]

\* The versions of a book page the upstream site can serve:
\*   p0  the page as first crawled
\*   p1  price_including_tax raised to 24.99
\*   p2  as p1, and price_excluding_tax raised too (same content fields as p1)
PageVersions == {"p0", "p1", "p2"}

\* Further versions, served in SpecDiff:
\*   p3  as p0 but the p.price_color element holds no number
\*   p4  as p0 but price_excluding_tax is 24.99
\*   p5  as p0 but another cover image
\*   p6  as p0 but another name, availability and rating
EditedVersions == {"p3", "p4", "p5", "p6"}

\* BookCrawler._extract_price: the text stripped of all but digits and dots,
\* as a Decimal; 0.00 when nothing is left or it is no number.  The pound
\* sign of the page is written GBP.
_extract_price(text) ==
    CASE text = "GBP19.99" -> "19.99"
      [] text = "GBP24.99" -> "24.99"
      [] OTHER -> "0.00"

PageFields(u, v) ==
    CASE v = "p0" -> BasePage(u)
      [] v = "p1" -> [BasePage(u) EXCEPT !.price_including_tax = "24.99"]
      [] v = "p2" -> [BasePage(u) EXCEPT !.price_including_tax = "24.99",
                                         !.price_excluding_tax = "24.99"]
      [] v = "p3" -> [BasePage(u) EXCEPT
                          !.price_including_tax = _extract_price("")]
      [] v = "p4" -> [BasePage(u) EXCEPT
                          !.price_excluding_tax = _extract_price("GBP24.99")]
      [] v = "p5" -> [BasePage(u) EXCEPT !.image_url = "cover2"]
      [] v = "p6" -> [BasePage(u) EXCEPT !.name = "title2",
                                         !.availability = "Out of stock",
                                         !.rating = "4"]

\* What a GET of a book URL yields: a page version, a 404, or a failure of
\* every attempt (timeout, 5xx).
NotFound == "notfound"
Transient == "transient"
Answers == PageVersions \cup {NotFound, Transient}

\* BookData.validate_prices: a price must be positive.
validate_prices(p) == p # "0.00"

\* A validation that accepts every record.
AcceptsAnyBookData(b) == TRUE

\* BookData(**fields) validates: it raises unless both prices are positive.
ValidBookData(b) ==
    validate_prices(b.price_including_tax) /\ validate_prices(b.price_excluding_tax)

(***************************************************************************)
(* Fingerprinter.  A SHA-256 digest of the canonical JSON of a field       *)
(* subset is modelled by that JSON object itself (field -> str(value)):    *)
(* two digests are equal exactly when the hashed objects are.              *)
(***************************************************************************)
generate_content_hash(b) == [f \in ContentFields |-> b[f]]
generate_price_hash(b) == [f \in PriceFields |-> b[f]]
generate_availability_hash(b) == [f \in AvailabilityFields |-> b[f]]
generate_metadata_hash(b) == [f \in MetadataFields |-> b[f]]

\* book_id = "book_" + md5(source_url): one id per URL.
_generate_book_id(b) == <<"book", b.source_url>>

generate_complete_fingerprint(b) ==
    [book_id |-> _generate_book_id(b),
     source_url |-> b.source_url,
     content_hash |-> generate_content_hash(b),
     price_hash |-> generate_price_hash(b),
     availability_hash |-> generate_availability_hash(b),
     metadata_hash |-> generate_metadata_hash(b)]

\* The list of hash differences between two fingerprints, in the order the
\* code appends them.
compare_fingerprints(old, new) ==
    (IF old.content_hash # new.content_hash THEN <<"content">> ELSE <<>>)
    \o (IF old.price_hash # new.price_hash THEN <<"price">> ELSE <<>>)
    \o (IF old.availability_hash # new.availability_hash
        THEN <<"availability">> ELSE <<>>)
    \o (IF old.metadata_hash # new.metadata_hash THEN <<"metadata">> ELSE <<>>)

\* A field walk in the reverse order of the list.
get_changed_fields_reversed(old_data, new_data) ==
    LET n == Len(fingerprint_fields)
    IN  SelectSeq([i \in 1..n |-> fingerprint_fields[n + 1 - i]],
                  LAMBDA f : old_data[f] # new_data[f])

\* A field walk that looks at the descriptive fields only.
get_changed_fields_descriptive(old_data, new_data) ==
    SelectSeq(<<"name", "description", "category">>,
              LAMBDA f : old_data[f] # new_data[f])

\* The fingerprint fields whose values differ, in fingerprint_fields order
\* (a Python dict keeps insertion order).
get_changed_fields(old_data, new_data) ==
    SelectSeq(fingerprint_fields, LAMBDA f : old_data[f] # new_data[f])

\* A classification that knows no field.
_classify_change_default(field_name) == <<"description_change", "low">>

_classify_change(field_name) ==
    CASE field_name \in {"price_including_tax", "price_excluding_tax"} ->
             <<"price_change", "high">>
      [] field_name = "availability" -> <<"availability_change", "medium">>
      [] field_name = "rating" -> <<"rating_change", "medium">>
      [] field_name = "number_of_reviews" -> <<"reviews_change", "low">>
      [] field_name = "category" -> <<"category_change", "medium">>
      [] field_name = "image_url" -> <<"image_change", "low">>
      [] field_name = "description" -> <<"description_change", "low">>
      [] field_name = "name" -> <<"description_change", "high">>
      [] OTHER -> <<"description_change", "low">>

\* The ChangeLog built for one differing field.
FieldChangeLog(stored_data, current_data, f) ==
    [book_id |-> _generate_book_id(current_data),
     source_url |-> current_data.source_url,
     change_type |-> _classify_change(f)[1],
     severity |-> _classify_change(f)[2],
     field_name |-> f,
     old_value |-> Some(stored_data[f]),
     new_value |-> Some(current_data[f])]

(***************************************************************************)
(* State.                                                                  *)
(***************************************************************************)
VARIABLES
    upstream,      \* the site: URL -> the answer a GET of the book page gets
    books,         \* books collection: URL -> None or Some(row)
    fingerprints,  \* fingerprints collection: URL (book_id) -> None or Some(fp)
    change_logs,   \* change_logs collection: the ChangeLogs in insertion order
    pc,            \* position of detect_changes: idle, restore, discover, diff
    stored_books,  \* detect_changes' list of loaded book rows
    idx,           \* Phase D: index of the next row of stored_books
    acc,           \* detect_changes' counters and error list
    result,        \* the ChangeDetectionResult last returned: None or Some(r)
    last,          \* what Phase D did for the book it processed last
    hist,          \* what the last two runs started from
    dirty,         \* the environment acted since the last run started
    runs,          \* detect_changes invocations so far
    insert_result  \* the last insert_book since the last run started: None
                   \* or Some([source_url, fingerprint_refused, returned])

reconVars == <<upstream, books, fingerprints, change_logs, pc, stored_books,
               idx, acc, result, last, hist, dirty, runs, insert_result>>

VARIABLES
    state_file,      \* the crawl state file on disk
    crawl_state,     \* self.crawl_state of the running crawl_all_books
    cpc,             \* position of crawl_all_books
    loop_page_num,   \* page_num of the for loop: the page it fetches next
    books_processed, \* the local counter of crawl_all_books
    after_save,      \* where _save_crawl_state returns to: loop or return
    first_page,      \* the first page this invocation fetched: None or Some(n)
    entry,           \* what this invocation was entered with
    crawls,          \* crawl_all_books invocations so far
    page_failures    \* catalog pages whose fetch failed so far

crawlVars == <<state_file, crawl_state, cpc, loop_page_num, books_processed,
               after_save, first_page, entry, crawls, page_failures>>

\* The HTTP requests to the upstream site.
VARIABLES
    caller,          \* the function whose request loop is running
    attempt,         \* attempt of that loop
    answers,         \* what the upstream answered to each request of the loop
    delays,          \* the sleeps of the loop, in seconds
    last_exception,  \* last_exception of the loop: None or the failure
    fetch_pc,        \* position of the loop
    in_page,         \* _crawl_page is inside `async with self.throttler`
    details_left,    \* book containers of the page not yet extracted
    acquired,        \* entries of the throttler within the current second
    started          \* requests started within the current second

fetchVars == <<caller, attempt, answers, delays, last_exception, fetch_pc,
               in_page, details_left, acquired, started>>

\* The smaller models, each a record: the page count, the one-shot mode of
\* the scheduler service, the batches of phase D, the restore walk, the page
\* loop of the crawler with its error list, the cleanup job beside a restore.
VARIABLES pages, once, batch, walk, loop, clean

auxVars == <<pages, once, batch, walk, loop, clean>>

vars == <<reconVars, crawlVars, fetchVars, auxVars>>

\* The order in which find({}) yields the rows.
UrlOrder == <<"u1", "u2">>

\* The catalog: the book URLs listed on catalogue/page-n.html.
CatalogPage(n) ==
    CASE n = 1 -> <<"u1">>
      [] n = 2 -> <<"u2">>
      [] OTHER -> <<>>

\* A row of the books collection: the BookData fields and the soft-removal
\* mark (crawl_status, which BookData does not declare).
Row(data, status) == [data |-> data, crawl_status |-> status]

Store(b, f, c) == [books |-> b, fingerprints |-> f, change_logs |-> c]

\* The collection whose writes the Store refuses while one book is processed.
StoreFaults == {"none", "change_logs", "books", "fingerprints"}

(***************************************************************************)
(* Fetcher, as the reconciler uses it.                                     *)
(***************************************************************************)
\* _make_request_with_retry raises once every attempt failed: on a 404
\* (raise_for_status) as on a timeout.
_make_request_with_retry(u) ==
    IF upstream[u] \in {NotFound, Transient} THEN None ELSE Some(upstream[u])

\* Any exception ends in "return None".
_fetch_book_details_from_url(u) ==
    LET response == _make_request_with_retry(u)
    IN  IF response = None THEN None
        ELSE LET b == PageFields(u, response[1])
             IN  IF ValidBookData(b) THEN Some(b) ELSE None

_fetch_current_book_data(u) == _fetch_book_details_from_url(u)

(***************************************************************************)
(* Store operations of the fingerprint manager.                            *)
(***************************************************************************)
\* An insert of a fingerprint that is lost.
store_fingerprint_lost(fps, fp, refused) == fps

\* insert_one under the unique index on book_id: a duplicate is refused
\* (store_fingerprint returns False) and leaves the stored one.
store_fingerprint(fps, fp, refused) ==
    IF refused \/ fps[fp.source_url] # None THEN fps
    ELSE [fps EXCEPT ![fp.source_url] = Some(fp)]

\* update_one(..., upsert=True)
update_fingerprint(fps, fp, refused) ==
    IF refused THEN fps ELSE [fps EXCEPT ![fp.source_url] = Some(fp)]

get_fingerprint(fps, book_id) == fps[book_id[2]]

fingerprint_exists_by_url(fps, u) == fps[u] # None

\* A cleanup that takes a soft-removed book for a missing one.
cleanup_removed_as_orphans(fps, bks) ==
    LET gone(u) == bks[u] = None \/ bks[u][1].crawl_status = "removed"
    IN  <<[u \in URLS |-> IF gone(u) THEN None ELSE fps[u]],
          Cardinality({u \in URLS : fps[u] # None /\ gone(u)})>>

\* Phase A.  Returns <<fingerprints after the cleanup, orphaned_count>>.
RECURSIVE CleanupFrom(_, _, _, _)
CleanupFrom(i, fps, bks, count) ==
    IF i > Len(UrlOrder) THEN <<fps, count>>
    ELSE LET u == UrlOrder[i]
         IN  IF fps[u] # None /\ bks[u] = None
             THEN CleanupFrom(i + 1, [fps EXCEPT ![u] = None], bks, count + 1)
             ELSE CleanupFrom(i + 1, fps, bks, count)

cleanup_orphaned_fingerprints(fps, bks) == CleanupFrom(1, fps, bks, 0)

_get_stored_books(bks) ==
    LET present == SelectSeq(UrlOrder, LAMBDA u : bks[u] # None)
    IN  [i \in 1..Len(present) |-> bks[present[i]][1]]

count_documents(bks) == Cardinality({u \in URLS : bks[u] # None})

(***************************************************************************)
(* Phases B and C: walk the catalog, insert the listed books the store     *)
(* lacks, each with its fingerprint and a new_book ChangeLog.              *)
(***************************************************************************)
\* expected_count of _detect_and_restore_missing_books
expected_count == 1000
\* last catalog page of the restore walk
max_restore_page == 50
\* max_consecutive_errors of both walks
max_consecutive_errors == 5
\* max_pages_to_check of _detect_new_books
max_pages_to_check == 10

_get_book_urls_from_page(page_num) == CatalogPage(page_num)

NewBookChangeLog(b, field_name) ==
    [book_id |-> _generate_book_id(b),
     source_url |-> b.source_url,
     change_type |-> "new_book",
     severity |-> "medium",
     field_name |-> field_name,
     old_value |-> None,
     new_value |-> Some(b.name)]

\* An insert of the book and its ChangeLog that creates no fingerprint.
InsertWithoutFingerprint(st, b, field_name) ==
    [books |-> [st.books EXCEPT ![b.source_url] =
                    Some([data |-> b, crawl_status |-> "active"])],
     fingerprints |-> st.fingerprints,
     change_logs |-> Append(st.change_logs,
                            [book_id |-> _generate_book_id(b),
                             source_url |-> b.source_url,
                             change_type |-> "new_book",
                             severity |-> "medium",
                             field_name |-> field_name,
                             old_value |-> None,
                             new_value |-> Some(b.name)])]

\* insert_one of the book, store_fingerprint, _store_change_log
InsertFetchedBook(st, b, field_name) ==
    Store([st.books EXCEPT ![b.source_url] = Some(Row(b, "active"))],
          store_fingerprint(st.fingerprints, generate_complete_fingerprint(b), FALSE),
          Append(st.change_logs, NewBookChangeLog(b, field_name)))

\* The for loop over the book URLs of one page.  limit is the missing_count
\* of the restore walk; the discovery walk has none (limit = -1).
\* Returns <<store, count>>.
RECURSIVE WalkPage(_, _, _, _, _, _)
WalkPage(urls, i, st, count, limit, field_name) ==
    IF i > Len(urls) \/ (limit >= 0 /\ count >= limit) THEN <<st, count>>
    ELSE LET u == urls[i]
             book_data == _fetch_book_details_from_url(u)
         IN  IF st.books[u] = None /\ book_data # None
             THEN WalkPage(urls, i + 1,
                           InsertFetchedBook(st, book_data[1], field_name),
                           count + 1, limit, field_name)
             ELSE WalkPage(urls, i + 1, st, count, limit, field_name)

\* The while loop of _restore_missing_books.  Returns <<store, restored_count>>.
RECURSIVE RestoreLoop(_, _, _, _, _)
RestoreLoop(page_num, restored_count, consecutive_errors, st, missing_count) ==
    IF ~(restored_count < missing_count /\ page_num <= max_restore_page
         /\ consecutive_errors < max_consecutive_errors)
    THEN <<st, restored_count>>
    ELSE LET book_urls == _get_book_urls_from_page(page_num)
         IN  IF book_urls = <<>>
             THEN RestoreLoop(page_num + 1, restored_count,
                              consecutive_errors + 1, st, missing_count)
             ELSE LET r == WalkPage(book_urls, 1, st, restored_count,
                                    missing_count, "book_restored")
                  IN  RestoreLoop(page_num + 1, r[2], 0, r[1], missing_count)

_restore_missing_books(st, missing_count) ==
    RestoreLoop(1, 0, 0, st, missing_count)

\* Returns <<store, missing_books_count>>.
_detect_and_restore_missing_books(st) ==
    LET current_count == count_documents(st.books)
    IN  IF current_count >= expected_count THEN <<st, 0>>
        ELSE _restore_missing_books(st, expected_count - current_count)

\* The while loop of _detect_new_books.  Returns <<store, new_books_count>>.
RECURSIVE DiscoverLoop(_, _, _, _)
DiscoverLoop(page_num, new_books_count, consecutive_errors, st) ==
    IF ~(page_num <= max_pages_to_check
         /\ consecutive_errors < max_consecutive_errors)
    THEN <<st, new_books_count>>
    ELSE LET book_urls == _get_book_urls_from_page(page_num)
         IN  IF book_urls = <<>>
             THEN DiscoverLoop(page_num + 1, new_books_count,
                               consecutive_errors + 1, st)
             ELSE LET r == WalkPage(book_urls, 1, st, new_books_count, -1,
                                    "new_book")
                  IN  DiscoverLoop(page_num + 1, r[2], 0, r[1])

_detect_new_books(st) == DiscoverLoop(1, 0, 0, st)

(***************************************************************************)
(* Phase D: the Differ and the per-book step of _process_batch.            *)
(***************************************************************************)
ChangeTypes ==
    {"price_change", "availability_change", "rating_change", "reviews_change",
     "new_book", "book_removed", "description_change", "category_change",
     "image_change"}
Severities == {"low", "medium", "high", "critical"}

\* A Differ without the fingerprint pre-check.
ComparedFieldsAlways(old_fingerprint, stored_data, current_data) ==
    get_changed_fields(stored_data, current_data)

\* The fields _compare_book_data reports for (stored, current) given the
\* stored fingerprint old_fingerprint (None or Some(fp)).
ComparedFields(old_fingerprint, stored_data, current_data) ==
    IF old_fingerprint # None
    THEN LET new_fingerprint == generate_complete_fingerprint(current_data)
             fingerprint_changes ==
                 compare_fingerprints(old_fingerprint[1], new_fingerprint)
         IN  IF fingerprint_changes # <<>>
             THEN get_changed_fields(stored_data, current_data)
             ELSE <<>>
    ELSE get_changed_fields(stored_data, current_data)

\* The list of ChangeLogs _compare_book_data returns.
_compare_book_data(fps, stored_data, current_data) ==
    LET book_id == _generate_book_id(current_data)
        changed_fields ==
            ComparedFields(get_fingerprint(fps, book_id), stored_data, current_data)
    IN  [i \in 1..Len(changed_fields) |->
            FieldChangeLog(stored_data, current_data, changed_fields[i])]

\* _store_change_log logs and swallows a failure of insert_one.
_store_change_log(logs, change_log, refused) ==
    IF refused THEN logs ELSE Append(logs, change_log)

RemovedChangeLog(book_data) ==
    [book_id |-> _generate_book_id(book_data),
     source_url |-> book_data.source_url,
     change_type |-> "book_removed",
     severity |-> "high",
     field_name |-> "book",
     old_value |-> Some(book_data.name),
     new_value |-> None]

\* update_one {"$set": {"crawl_status": "removed"}}; a failure is swallowed.
MarkRemoved(bks, u, refused) ==
    IF refused \/ bks[u] = None THEN bks
    ELSE [bks EXCEPT ![u] = Some([bks[u][1] EXCEPT !.crawl_status = "removed"])]

_handle_removed_book(st, book_data, fault) ==
    Store(MarkRemoved(st.books, book_data.source_url, fault = "books"),
          st.fingerprints,
          _store_change_log(st.change_logs, RemovedChangeLog(book_data),
                            fault = "change_logs"))

\* An update that replaces the row, its crawl_status with it.
_update_stored_book_replacing(bks, book_data, refused) ==
    IF refused \/ bks[book_data.source_url] = None THEN bks
    ELSE [bks EXCEPT ![book_data.source_url] = Some(Row(book_data, "active"))]

\* update_one {"$set": book_dict}: the BookData fields are overwritten, the
\* crawl_status key is not among them; a failure is swallowed.
_update_stored_book(bks, book_data, refused) ==
    IF refused \/ bks[book_data.source_url] = None THEN bks
    ELSE [bks EXCEPT ![book_data.source_url] =
              Some([bks[book_data.source_url][1] EXCEPT !.data = book_data])]

\* Count of the ChangeLogs of a list having a given value in a given key.
CountBy(changes, key, value) ==
    Cardinality({i \in 1..Len(changes) : changes[i][key] = value})

ZeroAcc ==
    [changes_detected |-> 0, new_books |-> 0, updated_books |-> 0,
     removed_books |-> 0, restored_books |-> 0, new_books_count |-> 0,
     orphaned_count |-> 0,
     changes_by_type |-> [t \in ChangeTypes |-> 0],
     changes_by_severity |-> [v \in Severities |-> 0],
     errors |-> <<>>]

\* The body of the for loop of _process_batch for one stored row, with the
\* Store refusing the writes of collection fault.
\* Returns [st, acc, last].
ProcessStoredBook(st, a, stored_book, fault) ==
    LET stored_book_data == stored_book.data
        u == stored_book_data.source_url
        current_book_data == _fetch_current_book_data(u)
        before == [url |-> u, answer |-> upstream[u],
                   row |-> st.books[u], fingerprint |-> st.fingerprints[u],
                   stored |-> stored_book_data,
                   logs |-> Len(st.change_logs), errors |-> Len(a.errors)]
    IN  IF ~ValidBookData(stored_book_data)
        THEN \* _dict_to_book_data raises: the except clause of the loop body
             [st |-> st,
              acc |-> [a EXCEPT !.errors = Append(@, u)],
              last |-> [before |-> before, outcome |-> "error",
                        current |-> None, changes |-> <<>>,
                        refused |-> "none"]]
        ELSE IF current_book_data = None
        THEN [st |-> _handle_removed_book(st, stored_book_data, fault),
              acc |-> [a EXCEPT !.removed_books = @ + 1,
                                !.changes_detected = @ + 1],
              last |-> [before |-> before, outcome |-> "removed",
                        current |-> None, changes |-> <<>>,
                        refused |-> IF fault \in {"books", "change_logs"}
                                    THEN fault ELSE "none"]]
        ELSE
        LET current == current_book_data[1]
            fingerprint_exists == fingerprint_exists_by_url(st.fingerprints, u)
            changes == _compare_book_data(st.fingerprints, stored_book_data, current)
            logs == IF fault = "change_logs" THEN st.change_logs
                    ELSE st.change_logs \o changes
            new_fingerprint == generate_complete_fingerprint(current)
        IN  IF changes # <<>>
            THEN [st |-> Store(_update_stored_book(st.books, current, fault = "books"),
                               update_fingerprint(st.fingerprints, new_fingerprint,
                                                  fault = "fingerprints"),
                               logs),
                  acc |-> [a EXCEPT
                      !.changes_detected = @ + Len(changes),
                      !.updated_books = @ + 1,
                      !.changes_by_type =
                          [t \in ChangeTypes |-> @[t] + CountBy(changes, "change_type", t)],
                      !.changes_by_severity =
                          [v \in Severities |-> @[v] + CountBy(changes, "severity", v)]],
                  last |-> [before |-> before, outcome |-> "changed",
                            current |-> current_book_data,
                            changes |-> changes, refused |-> fault]]
            ELSE IF ~fingerprint_exists
            THEN [st |-> Store(st.books,
                               store_fingerprint(st.fingerprints, new_fingerprint,
                                                 fault = "fingerprints"),
                               logs),
                  acc |-> a,
                  last |-> [before |-> before, outcome |-> "fingerprint_created",
                            current |-> current_book_data,
                            changes |-> changes,
                            refused |-> IF fault = "fingerprints"
                                        THEN fault ELSE "none"]]
            ELSE [st |-> Store(st.books, st.fingerprints, logs),
                  acc |-> a,
                  last |-> [before |-> before, outcome |-> "unchanged",
                            current |-> current_book_data,
                            changes |-> changes, refused |-> "none"]]

(***************************************************************************)
(* The reconciler's actions.                                               *)
(***************************************************************************)
TheStore == Store(books, fingerprints, change_logs)

\* Every stored book has a fingerprint.
FullyFingerprinted(bks, fps) == \A u \in URLS : bks[u] # None => fps[u] # None

\* What is kept of the start of a run: whether the previous run started
\* from a store in which every book had a fingerprint (prev_full), whether
\* this one did (full), whether the environment did nothing since the previous
\* run started (same), and the length of the change log (logs).
Snapshot ==
    [prev_full |-> hist.full,
     full |-> FullyFingerprinted(books, fingerprints),
     same |-> ~dirty,
     logs |-> Len(change_logs)]

\* A result that reports success whatever the errors.
DetectionResultAlwaysSuccessful(a, total_books) ==
    [total_books_checked |-> total_books,
     changes_detected |-> a.changes_detected,
     new_books |-> a.new_books + a.restored_books + a.new_books_count,
     updated_books |-> a.updated_books,
     removed_books |-> a.removed_books,
     changes_by_type |-> a.changes_by_type,
     changes_by_severity |-> a.changes_by_severity,
     success |-> TRUE,
     errors |-> a.errors]

\* A result that counts the restored and discovered books as changes too.
DetectionResultCountingNew(a, total_books) ==
    [total_books_checked |-> total_books,
     changes_detected |-> a.changes_detected + a.restored_books + a.new_books_count,
     new_books |-> a.new_books + a.restored_books + a.new_books_count,
     updated_books |-> a.updated_books,
     removed_books |-> a.removed_books,
     changes_by_type |-> a.changes_by_type,
     changes_by_severity |-> a.changes_by_severity,
     success |-> Len(a.errors) = 0,
     errors |-> a.errors]

\* The ChangeDetectionResult built at the end of a run from the counters.
DetectionResult(a, total_books) ==
    [total_books_checked |-> total_books,
     changes_detected |-> a.changes_detected,
     new_books |-> a.new_books + a.restored_books + a.new_books_count,
     updated_books |-> a.updated_books,
     removed_books |-> a.removed_books,
     changes_by_type |-> a.changes_by_type,
     changes_by_severity |-> a.changes_by_severity,
     success |-> Len(a.errors) = 0,
     errors |-> a.errors]

\* The message of the exception _get_stored_books re-raises.
LoadFailure == "Database connection failed"

\* The ChangeDetectionResult of the outer except clause: the defaults,
\* success=False and the message of the exception.
FailedResult(message) ==
    [total_books_checked |-> 0,
     changes_detected |-> 0,
     new_books |-> 0,
     updated_books |-> 0,
     removed_books |-> 0,
     changes_by_type |-> [t \in ChangeTypes |-> 0],
     changes_by_severity |-> [v \in Severities |-> 0],
     success |-> FALSE,
     errors |-> <<message>>]

\* The states of the collections a crawl and the store's other writers leave
\* for one URL: no book; a book with its fingerprint (insert_book); a book
\* without one (insert_books_batch); a fingerprint whose book was deleted
\* (delete_book whose fingerprint delete failed); a book whose row
\* update_book left with a price BookData rejects.
InitialKinds == {"absent", "stored", "unfingerprinted", "orphan", "invalid"}

InvalidPage(u) == [BasePage(u) EXCEPT !.price_including_tax = "0.00"]

ReconInit ==
    /\ upstream = [u \in URLS |-> "p0"]
    /\ \E kind \in [URLS -> InitialKinds] :
         /\ books = [u \in URLS |->
                IF kind[u] \in {"stored", "unfingerprinted"}
                THEN Some(Row(BasePage(u), "active"))
                ELSE IF kind[u] = "invalid"
                THEN Some(Row(InvalidPage(u), "active")) ELSE None]
         /\ fingerprints = [u \in URLS |->
                IF kind[u] \in {"stored", "orphan", "invalid"}
                THEN Some(generate_complete_fingerprint(BasePage(u))) ELSE None]
    /\ change_logs = <<>>
    /\ pc = "idle"
    /\ stored_books = <<>>
    /\ idx = 1
    /\ acc = ZeroAcc
    /\ result = None
    /\ last = None
    /\ hist = [prev_full |-> FALSE, full |-> FALSE, same |-> FALSE, logs |-> 0]
    /\ dirty = FALSE
    /\ runs = 0
    /\ insert_result = None

\* Between two runs the site changes what it serves for one book URL.  No
\* run observes the site between two of its own fetches, so one step per
\* gap stands for any series of edits of that page.
UpstreamChange(u, a) ==
    /\ pc = "idle"
    /\ ~dirty
    /\ runs < MaxRuns
    /\ a # upstream[u]
    /\ upstream' = [upstream EXCEPT ![u] = a]
    /\ dirty' = TRUE
    /\ UNCHANGED <<books, fingerprints, change_logs, pc, stored_books, idx,
                   acc, result, last, hist, runs,
                   insert_result>>
    /\ UNCHANGED <<crawlVars, fetchVars, auxVars>>

\* An insert that replaces the row of a URL the store already has.
InsertBookOverwriting(st, book, fingerprint_refused) ==
    [st |-> [st EXCEPT !.books[book.source_url] = Some(Row(book, "active"))],
     returned |-> TRUE]

\* MongoDBManager.insert_book: insert_one under the unique index on
\* source_url, then store_fingerprint, whose failure is logged and
\* swallowed.  Returns [st, returned].
InsertBookInto(st, book, fingerprint_refused) ==
    IF st.books[book.source_url] # None
    THEN [st |-> st, returned |-> FALSE]
    ELSE [st |-> [st EXCEPT
                     !.books[book.source_url] = Some(Row(book, "active")),
                     !.fingerprints =
                         store_fingerprint(@, generate_complete_fingerprint(book),
                                           fingerprint_refused)],
          returned |-> TRUE]

\* Between two runs a crawl inserts the book it fetched from the page of u.
insert_book(u, fingerprint_refused) ==
    /\ pc = "idle"
    /\ ~dirty
    /\ runs < MaxRuns
    /\ upstream[u] \in PageVersions
    /\ LET r == InsertBookInto(TheStore, PageFields(u, upstream[u]),
                               fingerprint_refused)
       IN  /\ books' = r.st.books
           /\ fingerprints' = r.st.fingerprints
           /\ insert_result' = Some([source_url |-> u,
                                     fingerprint_refused |-> fingerprint_refused,
                                     returned |-> r.returned])
    /\ dirty' = TRUE
    /\ UNCHANGED <<upstream, change_logs, pc, stored_books, idx, acc, result,
                   last, hist, runs>>
    /\ UNCHANGED <<crawlVars, fetchVars, auxVars>>

\* MongoDBManager.delete_book between two runs: the row is deleted, then its
\* fingerprint; a failure of the second delete is logged and swallowed.
delete_book(u, fingerprint_delete_fails) ==
    /\ pc = "idle"
    /\ ~dirty
    /\ runs < MaxRuns
    /\ books[u] # None
    /\ books' = [books EXCEPT ![u] = None]
    /\ fingerprints' = IF fingerprint_delete_fails THEN fingerprints
                       ELSE [fingerprints EXCEPT ![u] = None]
    /\ dirty' = TRUE
    /\ UNCHANGED <<upstream, change_logs, pc, stored_books, idx, acc, result,
                   last, hist, runs,
                   insert_result>>
    /\ UNCHANGED <<crawlVars, fetchVars, auxVars>>

\* Between the restore walk and the discovery walk the page of a book the
\* store lacks, whose fetch failed so far, answers again.
UpstreamRecovers(u) ==
    /\ pc = "discover"
    /\ books[u] = None
    /\ upstream[u] = Transient
    /\ upstream' = [upstream EXCEPT ![u] = "p0"]
    /\ hist' = [hist EXCEPT !.same = FALSE]
    /\ UNCHANGED <<books, fingerprints, change_logs, pc, stored_books, idx,
                   acc, result, last, dirty, runs,
                   insert_result>>
    /\ UNCHANGED <<crawlVars, fetchVars, auxVars>>

\* detect_changes up to the empty-store return: Phase A, then the load of
\* the stored books, which raises when load_fails; the outer except clause
\* then returns the failed result.  A run that loaded nothing reconciled
\* nothing: it does not count as one that started from a fully
\* fingerprinted store.
StartRun(load_fails) ==
    /\ pc = "idle"
    /\ runs < MaxRuns
    /\ runs' = runs + 1
    /\ hist' = IF load_fails THEN [Snapshot EXCEPT !.full = FALSE] ELSE Snapshot
    /\ dirty' = FALSE
    /\ LET cleaned == cleanup_orphaned_fingerprints(fingerprints, books)
           loaded == IF load_fails THEN <<>> ELSE _get_stored_books(books)
       IN  /\ fingerprints' = cleaned[1]
           /\ stored_books' = loaded
           /\ acc' = [ZeroAcc EXCEPT !.orphaned_count = cleaned[2]]
           /\ IF load_fails
              THEN /\ pc' = "idle"
                   /\ result' = Some(FailedResult(LoadFailure))
              ELSE IF Len(loaded) = 0
              THEN /\ pc' = "idle"
                   /\ result' = Some(DetectionResult(ZeroAcc, 0))
              ELSE /\ pc' = "restore"
                   /\ result' = None
    /\ idx' = 1
    /\ last' = None
    /\ insert_result' = None
    /\ UNCHANGED <<upstream, books, change_logs>>
    /\ UNCHANGED <<crawlVars, fetchVars, auxVars>>

\* Phase B and the reload of the stored books.
Restore ==
    /\ pc = "restore"
    /\ LET r == _detect_and_restore_missing_books(TheStore)
       IN  /\ books' = r[1].books
           /\ fingerprints' = r[1].fingerprints
           /\ change_logs' = r[1].change_logs
           /\ acc' = [acc EXCEPT !.restored_books = r[2]]
           /\ stored_books' = IF r[2] > 0 THEN _get_stored_books(r[1].books)
                              ELSE stored_books
    /\ pc' = "discover"
    /\ UNCHANGED <<upstream, idx, result, last, hist, dirty, runs,
                   insert_result>>
    /\ UNCHANGED <<crawlVars, fetchVars, auxVars>>

\* Phase C and the reload of the stored books.
Discover ==
    /\ pc = "discover"
    /\ LET r == _detect_new_books(TheStore)
       IN  /\ books' = r[1].books
           /\ fingerprints' = r[1].fingerprints
           /\ change_logs' = r[1].change_logs
           /\ acc' = [acc EXCEPT !.new_books_count = r[2]]
           /\ stored_books' = IF r[2] > 0 THEN _get_stored_books(r[1].books)
                              ELSE stored_books
    /\ pc' = "diff"
    /\ UNCHANGED <<upstream, idx, result, last, hist, dirty, runs,
                   insert_result>>
    /\ UNCHANGED <<crawlVars, fetchVars, auxVars>>

\* Phase D for the next stored book.
ProcessBook(fault) ==
    /\ pc = "diff"
    /\ idx <= Len(stored_books)
    /\ LET r == ProcessStoredBook(TheStore, acc, stored_books[idx], fault)
       IN  /\ books' = r.st.books
           /\ fingerprints' = r.st.fingerprints
           /\ change_logs' = r.st.change_logs
           /\ acc' = r.acc
           /\ last' = Some(r.last)
    /\ idx' = idx + 1
    /\ UNCHANGED <<upstream, pc, stored_books, result, hist, dirty, runs,
                   insert_result>>
    /\ UNCHANGED <<crawlVars, fetchVars, auxVars>>

\* The end of detect_changes: the result is built and returned, the locals
\* of the invocation are gone.
FinishRun ==
    /\ pc = "diff"
    /\ idx > Len(stored_books)
    /\ result' = Some(DetectionResult(acc, Len(stored_books)))
    /\ pc' = "idle"
    /\ stored_books' = <<>>
    /\ idx' = 1
    /\ acc' = ZeroAcc
    /\ last' = None
    /\ UNCHANGED <<upstream, books, fingerprints, change_logs, hist, dirty,
                   runs,
                   insert_result>>
    /\ UNCHANGED <<crawlVars, fetchVars, auxVars>>

ReconNext ==
    \/ \E u \in URLS, a \in Answers : UpstreamChange(u, a)
    \/ \E u \in URLS, fails \in BOOLEAN : delete_book(u, fails)
    \/ \E u \in URLS, refused \in BOOLEAN : insert_book(u, refused)
    \/ \E load_fails \in BOOLEAN : StartRun(load_fails)
    \/ Restore
    \/ \E u \in URLS : UpstreamRecovers(u)
    \/ Discover
    \/ \E fault \in StoreFaults : ProcessBook(fault)
    \/ FinishRun

(***************************************************************************)
(* The crawler: crawl_all_books and its state file.                        *)
(***************************************************************************)
\* the for loop saves the state when loop_page_num % 10 == 0
checkpoint_interval == 10
\* high of _find_last_page_binary_search
search_high == 1000

\* CrawlState(): the defaults of the model's fields.
DefaultCrawlState ==
    [last_processed_page |-> 1, books_processed |-> 0, total_pages |-> None]

\* The state file: absent, empty (opened for writing), partial (some of
\* the document written) or a complete document.
NoFile == <<"absent">>
EmptyFile == <<"empty">>
PartialFile == <<"partial">>
Document(state) == <<"doc", state>>
IsDocument(file) == file[1] = "doc"

\* The probe of catalogue/page-n.html of a catalog of total pages: status
\* 200 and at least one book, unless the request is one of those that fail.
ProbeFindsBooks(total, failing, n) ==
    n \notin failing /\ 1 <= n /\ n <= total

\* A search that returns low, the page after the last one found.
RECURSIVE FindLastPageLow(_, _, _, _)
FindLastPageLow(total, failing, low, high) ==
    IF low > high THEN (IF low > 1 THEN low ELSE 1)
    ELSE LET mid == (low + high) \div 2
         IN  IF ProbeFindsBooks(total, failing, mid)
             THEN FindLastPageLow(total, failing, mid + 1, high)
             ELSE FindLastPageLow(total, failing, low, mid - 1)

\* The while loop of _find_last_page_binary_search and its max(1, high).
RECURSIVE FindLastPage(_, _, _, _)
FindLastPage(total, failing, low, high) ==
    IF low > high THEN (IF high > 1 THEN high ELSE 1)
    ELSE LET mid == (low + high) \div 2
         IN  IF ProbeFindsBooks(total, failing, mid)
             THEN FindLastPage(total, failing, mid + 1, high)
             ELSE FindLastPage(total, failing, low, mid - 1)

\* _get_total_pages of a catalog of total pages: 1 when the front page
\* cannot be fetched or has no next button.
TotalPagesOf(total, front_page_ok, next_button, failing) ==
    IF ~front_page_ok \/ ~next_button THEN 1
    ELSE FindLastPage(total, failing, 1, search_high)

\* catalogue/page-n.html answers 200 with books for the pages of the catalog.
PageHasBooks(n) == ProbeFindsBooks(TotalPages, {}, n)

_find_last_page_binary_search(low, high) ==
    FindLastPage(TotalPages, {}, low, high)

\* The crawler's catalog shows a next button when it has a second page.
_get_total_pages(front_page_ok) ==
    TotalPagesOf(TotalPages, front_page_ok, TotalPages > 1, {})

\* A load that never reads the file.
load_fresh_state(file) == DefaultCrawlState

\* json.load + CrawlState(**state_data); any exception gives CrawlState().
_load_crawl_state(file) ==
    IF IsDocument(file) THEN file[2] ELSE DefaultCrawlState

\* The crawl_state crawl_all_books starts from.
EnterCrawl(file, resume) ==
    IF resume /\ file # NoFile THEN _load_crawl_state(file)
    ELSE DefaultCrawlState

\* _crawl_page returns the books of the page, or [] when anything failed.
_crawl_page(ok) == IF ok THEN BooksPerPage ELSE 0

CrawlInit ==
    /\ state_file = NoFile
    /\ crawl_state = DefaultCrawlState
    /\ cpc = "idle"
    /\ loop_page_num = 1
    /\ books_processed = 0
    /\ after_save = "loop"
    /\ first_page = None
    /\ entry = [resume |-> FALSE, file |-> NoFile, after_crash |-> FALSE]
    /\ crawls = 0
    /\ page_failures = 0

\* crawl_all_books up to the for loop.
StartCrawl(resume, front_page_ok) ==
    /\ cpc \in {"idle", "returned", "crashed"}
    /\ crawls < MaxCrawls
    /\ crawls' = crawls + 1
    /\ LET state == EnterCrawl(state_file, resume)
           total_pages == _get_total_pages(front_page_ok)
       IN  /\ crawl_state' = [state EXCEPT !.total_pages = Some(total_pages)]
           /\ loop_page_num' = state.last_processed_page
    /\ books_processed' = 0
    /\ first_page' = None
    /\ entry' = [resume |-> resume, file |-> state_file,
                 after_crash |-> cpc = "crashed"]
    /\ cpc' = "loop"
    /\ UNCHANGED <<state_file, after_save, page_failures>>
    /\ UNCHANGED <<reconVars, fetchVars, auxVars>>

\* One iteration of the for loop up to the periodic save.
CrawlPage(ok) ==
    /\ cpc = "loop"
    /\ loop_page_num <= crawl_state.total_pages[1]
    /\ ok \/ page_failures < MaxPageFailures
    /\ page_failures' = IF ok THEN page_failures ELSE page_failures + 1
    /\ LET page_books == _crawl_page(ok /\ PageHasBooks(loop_page_num))
       IN  /\ books_processed' = books_processed + page_books
           /\ crawl_state' = [crawl_state EXCEPT
                  !.last_processed_page = loop_page_num,
                  !.books_processed = books_processed + page_books]
    /\ first_page' = IF first_page = None THEN Some(loop_page_num) ELSE first_page
    /\ loop_page_num' = loop_page_num + 1
    /\ cpc' = IF loop_page_num % checkpoint_interval = 0 THEN "save" ELSE "loop"
    /\ after_save' = "loop"
    /\ UNCHANGED <<state_file, entry, crawls>>
    /\ UNCHANGED <<reconVars, fetchVars, auxVars>>

\* The loop is over: the final save.
EndLoop ==
    /\ cpc = "loop"
    /\ loop_page_num > crawl_state.total_pages[1]
    /\ cpc' = "save"
    /\ after_save' = "return"
    /\ UNCHANGED <<state_file, crawl_state, loop_page_num, books_processed,
                   first_page, entry, crawls, page_failures>>
    /\ UNCHANGED <<reconVars, fetchVars, auxVars>>

\* _save_crawl_state: open(self.state_file, 'w') truncates the file.
SaveOpen ==
    /\ cpc = "save"
    /\ state_file' = EmptyFile
    /\ cpc' = "dump"
    /\ UNCHANGED <<crawl_state, loop_page_num, books_processed, after_save,
                   first_page, entry, crawls, page_failures>>
    /\ UNCHANGED <<reconVars, fetchVars, auxVars>>

\* _save_crawl_state: json.dump has written part of the document.
SaveDump ==
    /\ cpc = "dump"
    /\ state_file' = PartialFile
    /\ cpc' = "close"
    /\ UNCHANGED <<crawl_state, loop_page_num, books_processed, after_save,
                   first_page, entry, crawls, page_failures>>
    /\ UNCHANGED <<reconVars, fetchVars, auxVars>>

\* _save_crawl_state: the rest is written and the file closed.
SaveClose ==
    /\ cpc = "close"
    /\ state_file' = Document(crawl_state)
    /\ cpc' = IF after_save = "return" THEN "returned" ELSE "loop"
    /\ after_save' = "loop"
    /\ UNCHANGED <<crawl_state, loop_page_num, books_processed, first_page, entry,
                   crawls, page_failures>>
    /\ UNCHANGED <<reconVars, fetchVars, auxVars>>

\* The process dies: what it held in memory is gone, the file stays.
Crash ==
    /\ cpc \in {"loop", "save", "dump", "close"}
    /\ cpc' = "crashed"
    /\ crawl_state' = DefaultCrawlState
    /\ loop_page_num' = 1
    /\ books_processed' = 0
    /\ after_save' = "loop"
    /\ first_page' = None
    /\ UNCHANGED <<state_file, entry, crawls, page_failures>>
    /\ UNCHANGED <<reconVars, fetchVars, auxVars>>

CrawlNext ==
    \/ \E resume \in BOOLEAN, front_page_ok \in BOOLEAN :
           StartCrawl(resume, front_page_ok)
    \/ \E ok \in BOOLEAN : CrawlPage(ok)
    \/ EndLoop
    \/ SaveOpen
    \/ SaveDump
    \/ SaveClose
    \/ Crash

(***************************************************************************)
(* The HTTP requests to the upstream site.  Time is counted in seconds:    *)
(* acquired and started count what happened within the current second.     *)
(***************************************************************************)
retry_attempts == 3
retry_delay == 1
rate_limit_per_second == 2
max_retries == 3

\* The functions that send requests to the upstream site.
ThroughRetry ==
    {"_crawl_page", "_extract_book_data", "_fetch_book_details_from_url"}
Unpaced ==
    {"_fetch_book_details_from_url", "_get_book_urls_from_page",
     "_get_total_pages"}
Callers == ThroughRetry \cup Unpaced

\* What a request ends in: a 2xx response, raise_for_status raising for a
\* 404 or a 500, or a network error.
Responses == {"200", "404", "500", "timeout"}
Failures == Responses \ {"200"}

\* Whether the request loop of c goes round again after failure f of
\* attempt k, and the sleep before the next attempt.
Retries(c, f, k) ==
    CASE c \in ThroughRetry -> k < retry_attempts
      [] c = "_get_book_urls_from_page" ->
             f = "timeout" /\ k < max_retries - 1
      [] OTHER -> FALSE

\* A backoff that does not grow.
BackoffConstant(c, k) == retry_delay

Backoff(c, k) ==
    IF c \in ThroughRetry THEN retry_delay * (2 ^ k) ELSE 2 ^ k

AtRest == fetch_pc \in {"idle", "returned", "raised"}

FetchInit ==
    /\ caller = "none"
    /\ attempt = 0
    /\ answers = <<>>
    /\ delays = <<>>
    /\ last_exception = None
    /\ fetch_pc = "idle"
    /\ in_page = FALSE
    /\ details_left = 0
    /\ acquired = 0
    /\ started = 0

BeginLoop(c) ==
    /\ caller' = c
    /\ attempt' = 0
    /\ answers' = <<>>
    /\ delays' = <<>>
    /\ last_exception' = None
    /\ fetch_pc' = "get"

\* _crawl_page enters the throttler, which admits rate_limit entries per
\* second and makes the others wait, and requests the catalog page.
EnterThrottler ==
    /\ AtRest
    /\ ~in_page
    /\ acquired < rate_limit_per_second
    /\ acquired' = acquired + 1
    /\ in_page' = TRUE
    /\ details_left' = 0
    /\ BeginLoop("_crawl_page")
    /\ UNCHANGED <<started, reconVars, crawlVars, auxVars>>

\* _extract_book_data of one container of the page: inside the throttler
\* block of the page, it requests the detail page.
ExtractBook ==
    /\ AtRest
    /\ in_page
    /\ details_left > 0
    /\ details_left' = details_left - 1
    /\ BeginLoop("_extract_book_data")
    /\ UNCHANGED <<in_page, acquired, started, reconVars, crawlVars, auxVars>>

\* _crawl_page returns: the page request failed, or every container is done.
LeaveThrottler ==
    /\ AtRest
    /\ in_page
    /\ details_left = 0
    /\ in_page' = FALSE
    /\ caller' = "none"
    /\ attempt' = 0
    /\ answers' = <<>>
    /\ delays' = <<>>
    /\ last_exception' = None
    /\ fetch_pc' = "idle"
    /\ UNCHANGED <<details_left, acquired, started, reconVars, crawlVars, auxVars>>

\* The requests of the reconciler and the page-count probe: no throttler.
StartRequest(c) ==
    /\ AtRest
    /\ c \in Unpaced
    /\ BeginLoop(c)
    /\ UNCHANGED <<in_page, details_left, acquired, started, reconVars,
                   crawlVars, auxVars>>

\* client.get(url) and raise_for_status of the running loop.
Get(response) ==
    /\ fetch_pc = "get"
    /\ started < MaxStarted
    /\ started' = started + 1
    /\ answers' = Append(answers, response)
    /\ IF response = "200"
       THEN /\ fetch_pc' = "returned"
            /\ delays' = delays
            /\ last_exception' = last_exception
            /\ details_left' =
                   IF caller = "_crawl_page" THEN BooksPerPage
                   ELSE details_left
       ELSE /\ IF Retries(caller, response, attempt)
               THEN /\ fetch_pc' = "sleep"
                    /\ delays' = Append(delays, Backoff(caller, attempt))
               ELSE /\ fetch_pc' = "raised"
                    /\ delays' = delays
            /\ last_exception' = Some(response)
            /\ details_left' = details_left
    /\ UNCHANGED <<caller, attempt, in_page, acquired, reconVars, crawlVars, auxVars>>

\* asyncio.sleep(delay) of the loop: at least a second passes.
Sleep ==
    /\ fetch_pc = "sleep"
    /\ attempt' = attempt + 1
    /\ fetch_pc' = "get"
    /\ acquired' = 0
    /\ started' = 0
    /\ UNCHANGED <<caller, answers, delays, last_exception, in_page,
                   details_left, reconVars, crawlVars, auxVars>>

\* A second passes.
Tick ==
    /\ acquired > 0 \/ started > 0
    /\ acquired' = 0
    /\ started' = 0
    /\ UNCHANGED <<caller, attempt, answers, delays, last_exception, fetch_pc,
                   in_page, details_left, reconVars, crawlVars, auxVars>>

FetchNext ==
    \/ EnterThrottler
    \/ ExtractBook
    \/ LeaveThrottler
    \/ \E c \in Unpaced : StartRequest(c)
    \/ \E response \in Responses : Get(response)
    \/ Sleep
    \/ Tick

(***************************************************************************)
(* The smaller models.                                                     *)
(***************************************************************************)
AuxInit ==
    /\ pages = None
    /\ once = None
    /\ batch = None
    /\ walk = None
    /\ loop = None
    /\ clean = None

\* The page count.  A catalog of total pages (1..search_high), a front page
\* that can be fetched or not and shows a next button or not, and a first
\* probe that fails or not.
FirstProbe == (1 + search_high) \div 2

PagesInputs ==
    [total : 1..search_high, front_page_ok : BOOLEAN, next_button : BOOLEAN,
     failing : {{}, {FirstProbe}}, result : {None}]

PagesInit == pages \in PagesInputs

GetTotalPages ==
    /\ pages # None
    /\ pages.result = None
    /\ pages' = [pages EXCEPT !.result =
                     Some(TotalPagesOf(pages.total, pages.front_page_ok,
                                       pages.next_button, pages.failing))]
    /\ UNCHANGED <<once, batch, walk, loop, clean, reconVars, crawlVars, fetchVars>>

\* The one-shot mode of the scheduler service and the daily report.
Min(a, b) == IF a < b THEN a ELSE b
Max(a, b) == IF a > b THEN a ELSE b

\* round(n / d, 0) for d > 0: to the nearest integer, a tie to the even one.
RoundHalfEven(n, d) ==
    LET q == n \div d
        r == n - q * d
    IN  IF 2 * r < d THEN q
        ELSE IF 2 * r > d THEN q + 1
        ELSE IF q % 2 = 0 THEN q ELSE q + 1

\* ReportGenerator._calculate_health_score, in hundredths.  The three
\* quotients are kept over the common denominator 10 * max(books_checked, 1).
_calculate_health_score(books_checked, changes_detected, errors_count) ==
    IF books_checked = 0 THEN 0
    ELSE LET d == 10 * Max(books_checked, 1)
             success_rate == d - 10 * errors_count
             change_bonus == Min(10 * changes_detected, Max(books_checked, 1))
             health_score == Min(success_rate + change_bonus, d)
         IN  RoundHalfEven(100 * health_score, d)

\* DailyReport.system_health_score: Field(ge=0.0, le=1.0)
ValidHealthScore(score) == 0 <= score /\ score <= 100

OnceInit ==
    once \in [generate_daily_reports : BOOLEAN, pc : {"start"},
              success : {None}, events : {<<>>}, counts : {None},
              score : {None}]

\* run_manual_change_detection: success is that of detect_changes, False
\* when the run recorded errors or raised.
RunOnceDetect(recorded_errors) ==
    /\ once # None
    /\ once.pc = "start"
    /\ once' = [once EXCEPT !.pc = "detected",
                            !.success = Some(~recorded_errors),
                            !.events = Append(@, "reconcile")]
    /\ UNCHANGED <<pages, batch, walk, loop, clean, reconVars, crawlVars, fetchVars>>

\* generate_daily_report, called when the detection succeeded and reports
\* are enabled: it aggregates the results of the day and builds the
\* DailyReport, whose validation error it re-raises.
RunOnceReport(books_checked, changes_detected, errors_count) ==
    /\ once # None
    /\ once.pc = "detected"
    /\ once.success = Some(TRUE)
    /\ once.generate_daily_reports
    /\ LET score == _calculate_health_score(books_checked, changes_detected,
                                            errors_count)
       IN  once' = [once EXCEPT
               !.counts = Some(<<books_checked, changes_detected, errors_count>>),
               !.score = Some(score),
               !.pc = IF ValidHealthScore(score) THEN "reported" ELSE "raised",
               !.events = IF ValidHealthScore(score) THEN Append(@, "report")
                          ELSE @]
    /\ UNCHANGED <<pages, batch, walk, loop, clean, reconVars, crawlVars, fetchVars>>

\* "Run once mode completed. Exiting..."
RunOnceExit ==
    /\ once # None
    /\ \/ once.pc = "reported"
       \/ /\ once.pc = "detected"
          /\ ~(once.success = Some(TRUE) /\ once.generate_daily_reports)
    /\ once' = [once EXCEPT !.pc = "exited"]
    /\ UNCHANGED <<pages, batch, walk, loop, clean, reconVars, crawlVars, fetchVars>>

OnceNext ==
    \/ \E recorded_errors \in BOOLEAN : RunOnceDetect(recorded_errors)
    \/ \E books_checked \in 0..MaxCount, changes_detected \in 0..MaxCount,
          errors_count \in 0..MaxCount :
           RunOnceReport(books_checked, changes_detected, errors_count)
    \/ RunOnceExit

\* The batches of phase D: the for loop of detect_changes over
\* range(0, total_books, batch_size) and the for loop of _process_batch.
\* Books are numbered 1..total_books in the order of stored_books.
max_concurrent_books == 50

\* A slice that takes one book more than batch_size.
BatchSliceOverlapping(total_books, i, batch_size) ==
    (i + 1)..Min(i + batch_size + 1, total_books)

\* stored_books[i:i + batch_size]
BatchSlice(total_books, i, batch_size) ==
    (i + 1)..Min(i + batch_size, total_books)

BatchInit ==
    \E total_books \in 0..MaxBooks, batch_size \in 1..MaxBatchSize :
        batch = [total_books |-> total_books, batch_size |-> batch_size,
                 pc |-> "loop", i |-> 0, slice |-> {}, next_book |-> 0,
                 batch_no |-> 0, in_progress |-> {},
                 times |-> [k \in 1..total_books |-> 0],
                 batch_of |-> [k \in 1..total_books |-> 0]]

\* The next round of the for loop of detect_changes calls _process_batch.
StartBatch ==
    /\ batch # None
    /\ batch.pc = "loop"
    /\ batch.i < batch.total_books
    /\ LET slice == BatchSlice(batch.total_books, batch.i, batch.batch_size)
       IN  batch' = [batch EXCEPT !.pc = "batch",
                                  !.slice = slice,
                                  !.next_book = batch.i + 1,
                                  !.batch_no = @ + 1]
    /\ UNCHANGED <<pages, once, walk, loop, clean, reconVars, crawlVars, fetchVars>>

\* The body of the for loop of _process_batch starts on the next book.
BeginBook ==
    /\ batch # None
    /\ batch.pc = "batch"
    /\ batch.in_progress = {}
    /\ batch.next_book \in batch.slice
    /\ batch' = [batch EXCEPT !.in_progress = {batch.next_book}]
    /\ UNCHANGED <<pages, once, walk, loop, clean, reconVars, crawlVars, fetchVars>>

\* The body ends, by its last statement or in its except clause.
EndBook ==
    /\ batch # None
    /\ batch.in_progress # {}
    /\ LET k == batch.next_book
       IN  batch' = [batch EXCEPT !.in_progress = {},
                                  !.times[k] = @ + 1,
                                  !.batch_of[k] = batch.batch_no,
                                  !.next_book = k + 1]
    /\ UNCHANGED <<pages, once, walk, loop, clean, reconVars, crawlVars, fetchVars>>

\* _process_batch returns and the counters are aggregated.
EndBatch ==
    /\ batch # None
    /\ batch.pc = "batch"
    /\ batch.in_progress = {}
    /\ batch.next_book \notin batch.slice
    /\ batch' = [batch EXCEPT !.pc = "loop",
                              !.i = @ + batch.batch_size,
                              !.slice = {}]
    /\ UNCHANGED <<pages, once, walk, loop, clean, reconVars, crawlVars, fetchVars>>

\* The range is exhausted.
EndBatches ==
    /\ batch # None
    /\ batch.pc = "loop"
    /\ batch.i >= batch.total_books
    /\ batch' = [batch EXCEPT !.pc = "done"]
    /\ UNCHANGED <<pages, once, walk, loop, clean, reconVars, crawlVars, fetchVars>>

BatchNext ==
    \/ StartBatch
    \/ BeginBook
    \/ EndBook
    \/ EndBatch
    \/ EndBatches

\* The restore walk in numbers: _detect_and_restore_missing_books over a
\* store of current_count books and a catalog whose pages either yield no
\* book URLs (empty, or every request failed) or yield URLs of which some
\* can be restored (not in the store, fetched and inserted).
\* empty_run counts the latest consecutive pages that yielded no URLs;
\* raised tells that the processing of some page raised (find_one failed).

\* A counter that a page with book URLs leaves as it is.
ErrorsKept(consecutive_errors) == consecutive_errors

\* "Reset consecutive errors if we got book URLs"
ErrorsAfterUrls(consecutive_errors) == 0

\* The condition of the while loop.
WalkGoesOn(w) ==
    /\ w.restored_count < w.missing_count
    /\ w.page_num <= max_restore_page
    /\ w.consecutive_errors < max_consecutive_errors

\* What the walk is said to end on, independently of its own counter.
EndReached(w) ==
    \/ w.restored_count = w.missing_count
    \/ w.empty_run >= max_consecutive_errors
    \/ w.page_num > max_restore_page

WalkInit ==
    \E current_count \in (expected_count - MaxMissing)..(expected_count + 1) :
        walk = [current_count |-> current_count, pc |-> "start",
                missing_count |-> 0, page_num |-> 1, restored_count |-> 0,
                consecutive_errors |-> 0, empty_run |-> 0,
                raised |-> FALSE, fetched_after_end |-> FALSE]

\* _detect_and_restore_missing_books up to the call of the walk.
DetectMissing ==
    /\ walk # None
    /\ walk.pc = "start"
    /\ walk' = IF walk.current_count >= expected_count
               THEN [walk EXCEPT !.pc = "done"]
               ELSE [walk EXCEPT
                         !.pc = "walking",
                         !.missing_count = expected_count - walk.current_count]
    /\ UNCHANGED <<pages, once, batch, loop, clean, reconVars, crawlVars, fetchVars>>

\* One round of the while loop on a page that yields no book URLs.
RestorePageEmpty ==
    /\ walk # None
    /\ walk.pc = "walking"
    /\ WalkGoesOn(walk)
    /\ walk' = [walk EXCEPT
           !.consecutive_errors = @ + 1,
           !.empty_run = @ + 1,
           !.page_num = @ + 1,
           !.fetched_after_end = @ \/ EndReached(walk)]
    /\ UNCHANGED <<pages, once, batch, loop, clean, reconVars, crawlVars, fetchVars>>

\* One round on a page with book URLs of which restorable can be restored;
\* with raises, the processing of the page raises after them.
RestorePage(restorable, raises) ==
    /\ walk # None
    /\ walk.pc = "walking"
    /\ WalkGoesOn(walk)
    /\ walk' = [walk EXCEPT
           !.consecutive_errors =
               ErrorsAfterUrls(@) + (IF raises THEN 1 ELSE 0),
           !.empty_run = 0,
           !.restored_count = Min(@ + restorable, walk.missing_count),
           !.page_num = @ + 1,
           !.raised = @ \/ raises,
           !.fetched_after_end = @ \/ EndReached(walk)]
    /\ UNCHANGED <<pages, once, batch, loop, clean, reconVars, crawlVars, fetchVars>>

\* The while loop ends and restored_count is returned.
EndWalk ==
    /\ walk # None
    /\ walk.pc = "walking"
    /\ ~WalkGoesOn(walk)
    /\ walk' = [walk EXCEPT !.pc = "done"]
    /\ UNCHANGED <<pages, once, batch, loop, clean, reconVars, crawlVars, fetchVars>>

WalkNext ==
    \/ DetectMissing
    \/ RestorePageEmpty
    \/ \E restorable \in 0..MaxRestorable, raises \in BOOLEAN :
           RestorePage(restorable, raises)
    \/ EndWalk

\* The page loop of crawl_all_books with the two error lists: self.errors
\* of the BookCrawler and the errors field of its CrawlState, the only one
\* of the two that _save_crawl_state writes.  main.py builds one BookCrawler
\* for each invocation.  A save is taken as a whole here.
PageOutcomes == {"books", "empty", "failed"}

\* CrawlState() as the page loop sees it.
FreshCrawlState == [last_processed_page |-> 1, errors |-> <<>>]

\* The pages an error list names.
FailedPages(errors) == {errors[i] : i \in 1..Len(errors)}

\* The except clause of _crawl_page: the error goes to self.errors; the
\* CrawlState is not touched.
RecordError(state, page_num) == state

\* crawl_state.last_processed_page = page_num, whatever _crawl_page met.
Advance(state, page_num, outcome) ==
    [state EXCEPT !.last_processed_page = page_num]

LoopInit ==
    loop = [pc |-> "idle", resume |-> FALSE, entry_file |-> None,
            first |-> None, page_num |-> 1, total_pages |-> 1,
            crawl_state |-> FreshCrawlState, errors |-> <<>>, file |-> None,
            empties |-> 0, crawls |-> 0, failures |-> 0]

\* BookCrawler(db_manager) and crawl_all_books up to the for loop.
LoopStart(resume) ==
    /\ loop # None
    /\ loop.pc \in {"idle", "returned", "crashed"}
    /\ loop.crawls < MaxLoopCrawls
    /\ LET state == IF resume /\ loop.file # None THEN loop.file[1]
                    ELSE FreshCrawlState
       IN  loop' = [loop EXCEPT
               !.pc = "loop",
               !.resume = resume,
               !.entry_file = loop.file,
               !.first = None,
               !.crawl_state = state,
               !.errors = <<>>,
               !.total_pages = TotalPagesOf(LoopPages, TRUE, LoopPages > 1, {}),
               !.page_num = state.last_processed_page,
               !.empties = 0,
               !.crawls = @ + 1]
    /\ UNCHANGED <<pages, once, batch, walk, clean, reconVars, crawlVars, fetchVars>>

\* One iteration of the for loop: _crawl_page, which returns [] for a page
\* without books and for a page whose request failed, the update of the
\* state and the periodic save.
LoopPage(outcome) ==
    /\ loop # None
    /\ loop.pc = "loop"
    /\ loop.page_num <= loop.total_pages
    /\ outcome = "failed" => loop.failures < MaxLoopFailures
    /\ LET page_books == IF outcome = "books" THEN BooksPerPage ELSE 0
           errors == IF outcome = "failed" THEN Append(loop.errors, loop.page_num)
                     ELSE loop.errors
           recorded == IF outcome = "failed"
                       THEN RecordError(loop.crawl_state, loop.page_num)
                       ELSE loop.crawl_state
           state == Advance(recorded, loop.page_num, outcome)
           empties == IF page_books = 0 THEN loop.empties + 1 ELSE 0
       IN  loop' = [loop EXCEPT
               !.errors = errors,
               !.crawl_state = state,
               !.file = IF loop.page_num % checkpoint_interval = 0
                        THEN Some(state) ELSE @,
               !.first = IF @ = None THEN Some(loop.page_num) ELSE @,
               !.empties = empties,
               !.failures = IF outcome = "failed" THEN @ + 1 ELSE @,
               !.page_num = @ + 1]
    /\ UNCHANGED <<pages, once, batch, walk, clean, reconVars, crawlVars, fetchVars>>

\* The range is exhausted: the final save and the CrawlResult.
LoopEnd ==
    /\ loop # None
    /\ loop.pc = "loop"
    /\ loop.page_num > loop.total_pages
    /\ loop' = [loop EXCEPT !.pc = "returned",
                            !.file = Some(loop.crawl_state)]
    /\ UNCHANGED <<pages, once, batch, walk, clean, reconVars, crawlVars, fetchVars>>

\* The process dies in the loop: the file stays.
LoopCrash ==
    /\ loop # None
    /\ loop.pc = "loop"
    /\ loop.first # None
    /\ loop' = [loop EXCEPT !.pc = "crashed"]
    /\ UNCHANGED <<pages, once, batch, walk, clean, reconVars, crawlVars, fetchVars>>

LoopNext ==
    \/ \E resume \in BOOLEAN : LoopStart(resume)
    \/ \E outcome \in PageOutcomes : LoopPage(outcome)
    \/ LoopEnd
    \/ LoopCrash

\* The scheduled fingerprint cleanup job beside the restore walk of a
\* reconciliation run.  Both are coroutines of the one event loop of the
\* AsyncIOScheduler and have different job ids: each runs up to its next
\* await of the Store, where the other may go on.  Of a book and of a
\* fingerprint the model keeps whether the Store holds it.
StoreKinds == {"absent", "orphan", "stored"}

\* The URLs of the fingerprints find({}) returns, in the order of the walk.
get_all_fingerprints(fps) == SelectSeq(UrlOrder, LAMBDA u : fps[u])

CleanInit ==
    \E kind \in [URLS -> StoreKinds] :
        clean = [books |-> [u \in URLS |-> kind[u] = "stored"],
                 fingerprints |-> [u \in URLS |-> kind[u] # "absent"],
                 job |-> [pc |-> "idle", list |-> <<>>, i |-> 1,
                          orphaned_count |-> 0],
                 run |-> [pc |-> "find", i |-> 1, restored_count |-> 0],
                 deleted_with_row |-> {}]

\* cleanup_orphaned_fingerprints up to its loop: get_all_fingerprints.
CleanupList ==
    /\ clean # None
    /\ clean.job.pc = "idle"
    /\ LET list == get_all_fingerprints(clean.fingerprints)
       IN  clean' = [clean EXCEPT
               !.job.list = list,
               !.job.pc = IF list = <<>> THEN "done" ELSE "check"]
    /\ UNCHANGED <<pages, once, batch, walk, loop, reconVars, crawlVars, fetchVars>>

\* book_exists = await collection.find_one(...): with a row the loop goes
\* to the next fingerprint, without one to the delete.
CleanupCheck ==
    /\ clean # None
    /\ clean.job.pc = "check"
    /\ LET u == clean.job.list[clean.job.i]
           book_exists == clean.books[u]
           last_one == clean.job.i = Len(clean.job.list)
       IN  clean' = IF book_exists
                    THEN [clean EXCEPT
                             !.job.i = @ + 1,
                             !.job.pc = IF last_one THEN "done" ELSE "check"]
                    ELSE [clean EXCEPT !.job.pc = "delete"]
    /\ UNCHANGED <<pages, once, batch, walk, loop, reconVars, crawlVars, fetchVars>>

\* deleted = await self.delete_fingerprint(fingerprint.book_id)
CleanupDelete ==
    /\ clean # None
    /\ clean.job.pc = "delete"
    /\ LET u == clean.job.list[clean.job.i]
           deleted == clean.fingerprints[u]
           last_one == clean.job.i = Len(clean.job.list)
       IN  clean' = [clean EXCEPT
               !.fingerprints[u] = FALSE,
               !.job.orphaned_count = IF deleted THEN @ + 1 ELSE @,
               !.deleted_with_row = IF deleted /\ clean.books[u]
                                    THEN @ \cup {u} ELSE @,
               !.job.i = @ + 1,
               !.job.pc = IF last_one THEN "done" ELSE "check"]
    /\ UNCHANGED <<pages, once, batch, walk, loop, reconVars, crawlVars, fetchVars>>

\* _restore_missing_books for the next URL of the catalog page:
\* existing_book = await collection.find_one(...) and, for a missing book,
\* the fetch of its page, which gives a book or None.
RestoreFind(fetched) ==
    /\ clean # None
    /\ clean.run.pc = "find"
    /\ LET u == UrlOrder[clean.run.i]
           existing_book == clean.books[u]
           last_one == clean.run.i = Len(UrlOrder)
       IN  clean' = IF existing_book \/ ~fetched
                    THEN [clean EXCEPT
                             !.run.i = @ + 1,
                             !.run.pc = IF last_one THEN "done" ELSE "find"]
                    ELSE [clean EXCEPT !.run.pc = "insert"]
    /\ UNCHANGED <<pages, once, batch, walk, loop, reconVars, crawlVars, fetchVars>>

\* await collection.insert_one(book_dict); restored_count += 1
RestoreInsert ==
    /\ clean # None
    /\ clean.run.pc = "insert"
    /\ clean' = [clean EXCEPT
           !.books[UrlOrder[clean.run.i]] = TRUE,
           !.run.restored_count = @ + 1,
           !.run.pc = "fingerprint"]
    /\ UNCHANGED <<pages, once, batch, walk, loop, reconVars, crawlVars, fetchVars>>

\* await store_fingerprint(new_fingerprint): an insert_one that the unique
\* index on book_id refuses when the Store holds a fingerprint of the
\* book; store_fingerprint then returns False and the walk goes on.
RestoreFingerprint ==
    /\ clean # None
    /\ clean.run.pc = "fingerprint"
    /\ LET last_one == clean.run.i = Len(UrlOrder)
       IN  clean' = [clean EXCEPT
               !.fingerprints[UrlOrder[clean.run.i]] = TRUE,
               !.run.i = @ + 1,
               !.run.pc = IF last_one THEN "done" ELSE "find"]
    /\ UNCHANGED <<pages, once, batch, walk, loop, reconVars, crawlVars, fetchVars>>

CleanNext ==
    \/ CleanupList
    \/ CleanupCheck
    \/ CleanupDelete
    \/ \E fetched \in BOOLEAN : RestoreFind(fetched)
    \/ RestoreInsert
    \/ RestoreFingerprint

(***************************************************************************)
(* The specifications: in each, the other parts are at rest.               *)
(***************************************************************************)
Init == ReconInit /\ CrawlInit /\ FetchInit /\ AuxInit
Next == ReconNext
Spec == Init /\ [][Next]_vars

ReconAtRest ==
    /\ upstream = [u \in URLS |-> "p0"]
    /\ books = [u \in URLS |-> None]
    /\ fingerprints = [u \in URLS |-> None]
    /\ change_logs = <<>>
    /\ pc = "idle"
    /\ stored_books = <<>>
    /\ idx = 1
    /\ acc = ZeroAcc
    /\ result = None
    /\ last = None
    /\ hist = [prev_full |-> FALSE, full |-> FALSE, same |-> FALSE, logs |-> 0]
    /\ dirty = FALSE
    /\ runs = 0
    /\ insert_result = None

InitCrawl == ReconAtRest /\ CrawlInit /\ FetchInit /\ AuxInit
NextCrawl == CrawlNext
SpecCrawl == InitCrawl /\ [][NextCrawl]_vars

\* The reconciler against a site whose pages are edited in further ways,
\* with a Store that accepts every write.
InitDiff == ReconInit /\ CrawlInit /\ FetchInit /\ AuxInit
NextDiff ==
    \/ \E u \in URLS, a \in EditedVersions : UpstreamChange(u, a)
    \/ StartRun(FALSE)
    \/ Restore
    \/ Discover
    \/ ProcessBook("none")
    \/ FinishRun
SpecDiff == InitDiff /\ [][NextDiff]_vars

InitPages ==
    /\ ReconAtRest /\ CrawlInit /\ FetchInit
    /\ PagesInit /\ once = None /\ batch = None /\ walk = None
    /\ loop = None /\ clean = None
NextPages == GetTotalPages
SpecPages == InitPages /\ [][NextPages]_vars

InitOnce ==
    /\ ReconAtRest /\ CrawlInit /\ FetchInit
    /\ OnceInit /\ pages = None /\ batch = None /\ walk = None
    /\ loop = None /\ clean = None
NextOnce == OnceNext
SpecOnce == InitOnce /\ [][NextOnce]_vars

InitBatch ==
    /\ ReconAtRest /\ CrawlInit /\ FetchInit
    /\ BatchInit /\ pages = None /\ once = None /\ walk = None
    /\ loop = None /\ clean = None
NextBatch == BatchNext
SpecBatch == InitBatch /\ [][NextBatch]_vars

InitWalk ==
    /\ ReconAtRest /\ CrawlInit /\ FetchInit
    /\ WalkInit /\ pages = None /\ once = None /\ batch = None
    /\ loop = None /\ clean = None
NextWalk == WalkNext
SpecWalk == InitWalk /\ [][NextWalk]_vars

InitLoop ==
    /\ ReconAtRest /\ CrawlInit /\ FetchInit
    /\ pages = None /\ once = None /\ batch = None /\ walk = None
    /\ clean = None
    /\ LoopInit
NextLoop == LoopNext
SpecLoop == InitLoop /\ [][NextLoop]_vars

InitClean ==
    /\ ReconAtRest /\ CrawlInit /\ FetchInit
    /\ pages = None /\ once = None /\ batch = None /\ walk = None
    /\ loop = None
    /\ CleanInit
NextClean == CleanNext
SpecClean == InitClean /\ [][NextClean]_vars

InitFetch == ReconAtRest /\ CrawlInit /\ FetchInit /\ AuxInit
NextFetch == FetchNext
SpecFetch == InitFetch /\ [][NextFetch]_vars

\* The event loop runs every ready coroutine: a request that can be sent is
\* sent, a sleep ends, and time passes.
FairFetch ==
    /\ WF_vars(\E response \in Responses : Get(response))
    /\ WF_vars(Sleep)
    /\ WF_vars(Tick)
SpecFetchFair == SpecFetch /\ FairFetch

(***************************************************************************)
(* Properties of the reconciler, checked under Spec.                       *)
(***************************************************************************)
\* What Phase D saw and did for the book it processed last.
Processed == last[1]
DiffSet == {fingerprint_fields[i] : i \in 1..Len(fingerprint_fields)}

\* The step appended one book_removed record of severity high for the book
\* and its row is there, marked removed.
RemovedRecorded(l) ==
    /\ Len(change_logs) = l.before.logs + 1
    /\ change_logs[Len(change_logs)].change_type = "book_removed"
    /\ change_logs[Len(change_logs)].severity = "high"
    /\ change_logs[Len(change_logs)].source_url = l.before.url
    /\ books[l.before.url] # None
    /\ books[l.before.url][1].crawl_status = "removed"

\* C1: when a run started from a store in which every book had a
\* fingerprint and nothing changed before the next run (the site answers
\* the same for every URL, nobody else wrote to the store), the next run
\* appends no ChangeLog and returns changes_detected, new_books,
\* updated_books and removed_books all 0.
C1_Idempotence ==
    (pc = "idle" /\ runs >= 2 /\ hist.same /\ hist.prev_full)
    => /\ Len(change_logs) = hist.logs
       /\ result # None
       /\ result[1].changes_detected = 0
       /\ result[1].new_books = 0
       /\ result[1].updated_books = 0
       /\ result[1].removed_books = 0

\* C2: with the Store accepting every write, Phase D appends a book_removed
\* record of severity high and leaves the row in place marked removed
\* exactly when the fetch answered NotFound and the row was not yet marked
\* removed.
C2_RemovalRule ==
    (last # None /\ Processed.outcome # "error" /\ Processed.refused = "none")
    => (RemovedRecorded(Processed)
        <=> (/\ Processed.before.answer = NotFound
             /\ Processed.before.row[1].crawl_status # "removed"))

\* C3: when the fetch of a stored book failed with a transient error,
\* Phase D added an entry to the error list and wrote nothing: the change
\* log, the book row and the fingerprint are what they were.
C3_TransientFailureIsAnError ==
    (last # None /\ Processed.before.answer = Transient)
    => /\ Len(acc.errors) > Processed.before.errors
       /\ Len(change_logs) = Processed.before.logs
       /\ books[Processed.before.url] = Processed.before.row
       /\ fingerprints[Processed.before.url] = Processed.before.fingerprint

\* C4 as stated: when the stored fingerprint's content_hash equals the
\* current record's, _compare_book_data returns no ChangeLog.
C4_FastPathSoundness ==
    (/\ last # None
     /\ Processed.current # None
     /\ Processed.before.fingerprint # None
     /\ Processed.before.fingerprint[1].content_hash
            = generate_content_hash(Processed.current[1]))
    => Processed.changes = <<>>

\* C4 amended: when all four hashes of the stored fingerprint equal the
\* current record's, _compare_book_data returns no ChangeLog, whatever the
\* stored row holds.
C4_FastPathAllHashes ==
    (/\ last # None
     /\ Processed.current # None
     /\ Processed.before.fingerprint # None
     /\ compare_fingerprints(Processed.before.fingerprint[1],
                             generate_complete_fingerprint(Processed.current[1]))
            = <<>>)
    => Processed.changes = <<>>

\* The fast path was taken for a stored row that differs from the current
\* record.
C4_Witness ==
    /\ last # None
    /\ Processed.current # None
    /\ Processed.before.fingerprint # None
    /\ compare_fingerprints(Processed.before.fingerprint[1],
                            generate_complete_fingerprint(Processed.current[1]))
           = <<>>
    /\ get_changed_fields(Processed.before.stored, Processed.current[1]) # <<>>
    /\ Processed.changes = <<>>

C6_FingerprintAfterProcessing ==
    (/\ last # None
     /\ Len(acc.errors) = Processed.before.errors
     /\ Processed.refused = "none")
    => fingerprints[Processed.before.url] # None

\* C7: Phase A leaves no fingerprint without a book row, deletes no
\* fingerprint whose book row exists (soft-removed or not), and returns the
\* number of fingerprints it deleted.
C7_CleanupDeletesExactlyOrphans ==
    [][runs' = runs + 1
       => /\ \A u \in URLS : fingerprints'[u] # None => books'[u] # None
          /\ \A u \in URLS : books[u] # None => fingerprints'[u] = fingerprints[u]
          /\ acc'.orphaned_count =
                 Cardinality({u \in URLS : fingerprints[u] # None
                                           /\ fingerprints'[u] = None})]_vars

\* Phase A has just deleted an orphan and kept the fingerprint of a
\* soft-removed book.
C7_Witness ==
    /\ pc = "restore"
    /\ acc.orphaned_count > 0
    /\ \E u \in URLS : /\ books[u] # None
                       /\ books[u][1].crawl_status = "removed"
                       /\ fingerprints[u] # None

\* The new_book ChangeLogs of URL u among those appended after the first
\* from entries of logs.
NewBookLogs(logs, u, from) ==
    {i \in (from + 1)..Len(logs) :
        logs[i].source_url = u /\ logs[i].change_type = "new_book"}

\* C11: a restore walk or a discovery walk leaves every URL the store
\* lacked and whose page could be fetched with a book row holding the
\* fetched fields, a fingerprint of them and exactly one new_book ChangeLog
\* of severity medium whose new_value is the title; it appends none for a
\* URL the store had, so a run never holds two for one URL.
C11_NewBookDiscovery ==
    [][(pc \in {"restore", "discover"} /\ pc' # pc)
       => \A u \in URLS :
            /\ (books[u] = None /\ upstream[u] \in PageVersions)
               => /\ books'[u] = Some(Row(PageFields(u, upstream[u]), "active"))
                  /\ fingerprints'[u] = Some(generate_complete_fingerprint(
                                                 PageFields(u, upstream[u])))
                  /\ Cardinality(NewBookLogs(change_logs', u, Len(change_logs))) = 1
                  /\ \A i \in NewBookLogs(change_logs', u, Len(change_logs)) :
                        /\ change_logs'[i].severity = "medium"
                        /\ change_logs'[i].new_value
                               = Some(PageFields(u, upstream[u]).name)
            /\ books[u] # None
               => NewBookLogs(change_logs', u, Len(change_logs)) = {}
            /\ Cardinality(NewBookLogs(change_logs', u, hist.logs)) <= 1]_vars

\* The discovery walk has just inserted a book the restore walk could not
\* fetch.
C11_Witness ==
    /\ pc = "diff"
    /\ idx = 1
    /\ acc.new_books_count = 1
    /\ \E u \in URLS :
          /\ books[u] # None
          /\ fingerprints[u] # None
          /\ NewBookLogs(change_logs, u, hist.logs) # {}

\* Phase D processed, the Store accepting every write, a book whose stored
\* price_including_tax is 19.99, whose fingerprint is that of the stored row
\* and whose page differs from the row in price_including_tax = 24.99 only.
PriceChangeCase ==
    /\ last # None
    /\ Processed.refused = "none"
    /\ Processed.current # None
    /\ Processed.before.stored.price_including_tax = "19.99"
    /\ Processed.before.fingerprint
           = Some(generate_complete_fingerprint(Processed.before.stored))
    /\ Processed.current[1]
           = [Processed.before.stored EXCEPT !.price_including_tax = "24.99"]

\* C12: in the price-change case exactly one ChangeLog is appended for the
\* book (price_change, high, price_including_tax, 19.99 -> 24.99), the
\* stored price_including_tax becomes 24.99 and the fingerprint's
\* price_hash and content_hash become those of the current record.
C12_PriceChangeScenario ==
    PriceChangeCase
    => /\ Len(change_logs) = Processed.before.logs + 1
       /\ change_logs[Len(change_logs)] =
              [book_id |-> _generate_book_id(Processed.current[1]),
               source_url |-> Processed.before.url,
               change_type |-> "price_change",
               severity |-> "high",
               field_name |-> "price_including_tax",
               old_value |-> Some("19.99"),
               new_value |-> Some("24.99")]
       /\ Processed.changes = <<change_logs[Len(change_logs)]>>
       /\ books[Processed.before.url][1].data.price_including_tax = "24.99"
       /\ fingerprints[Processed.before.url][1].price_hash
              = generate_price_hash(Processed.current[1])
       /\ fingerprints[Processed.before.url][1].content_hash
              = generate_content_hash(Processed.current[1])
       /\ fingerprints[Processed.before.url][1].price_hash
              # Processed.before.fingerprint[1].price_hash
       /\ fingerprints[Processed.before.url][1].content_hash
              # Processed.before.fingerprint[1].content_hash

\* The price-change case has been processed as a change.
C12_Witness ==
    PriceChangeCase /\ Processed.outcome = "changed"

\* C13: a run that starts with fewer stored books than expected_count,
\* none at all included, goes on to the restore walk.
C13_RestoreTrigger ==
    [][(runs' = runs + 1 /\ count_documents(books) < expected_count)
       => pc' = "restore"]_vars

\* Phase D processed, the Store accepting every write, a book that had no
\* fingerprint and whose page equals the stored row.
MissingFingerprintCase ==
    /\ last # None
    /\ Processed.refused = "none"
    /\ Processed.before.fingerprint = None
    /\ Processed.current = Some(Processed.before.stored)

\* C14: for a book without fingerprint whose page equals the stored row,
\* Phase D appends no ChangeLog, leaves the row and creates the fingerprint
\* of the current record, which has the four hashes of the stored row.
C14_MissingFingerprintRoundTrip ==
    MissingFingerprintCase
    => /\ Processed.changes = <<>>
       /\ Len(change_logs) = Processed.before.logs
       /\ books[Processed.before.url] = Processed.before.row
       /\ fingerprints[Processed.before.url]
              = Some(generate_complete_fingerprint(Processed.current[1]))
       /\ compare_fingerprints(
              fingerprints[Processed.before.url][1],
              generate_complete_fingerprint(Processed.before.stored)) = <<>>

\* The missing fingerprint of an unchanged book has been created.
C14_Witness ==
    MissingFingerprintCase /\ Processed.outcome = "fingerprint_created"

\* The conversion of a stored row to BookData raises.
RowRaises(row) ==
    row.data.price_including_tax = "0.00" \/ row.data.price_excluding_tax = "0.00"

\* C15: in Phase D every step processes the next stored row, whatever
\* happened to the rows before it; a row whose processing raises adds
\* exactly one entry to the error list and any other row none; the run ends
\* only after the last row, returning the collected errors.
C15_PerBookErrorsAreCaptured ==
    [][pc = "diff"
       => IF idx <= Len(stored_books)
          THEN /\ pc' = "diff"
               /\ idx' = idx + 1
               /\ last' # None
               /\ last'[1].before.url = stored_books[idx].data.source_url
               /\ Len(acc'.errors) = Len(acc.errors)
                      + (IF RowRaises(stored_books[idx]) THEN 1 ELSE 0)
          ELSE /\ pc' = "idle"
               /\ result' # None
               /\ result'[1].errors = acc.errors
               /\ result'[1].total_books_checked = Len(stored_books)]_vars

\* A book has been processed after the processing of an earlier one of the
\* run raised.
C15_Witness ==
    /\ pc = "diff"
    /\ last # None
    /\ Processed.before.errors = 1
    /\ Len(acc.errors) = 1
    /\ Processed.outcome \in {"changed", "unchanged", "fingerprint_created"}

\* C16: when the Store refused the append of a ChangeLog of a book,
\* Phase D added an entry to the error list for the book, left its row and
\* its fingerprint as they were and counted nothing for it.
C16_AppendFailureIsFatalForTheBook ==
    (/\ last # None
     /\ Processed.refused = "change_logs"
     /\ Processed.outcome \in {"changed", "removed"})
    => /\ Len(acc.errors) = Processed.before.errors + 1
       /\ Len(change_logs) = Processed.before.logs
       /\ books[Processed.before.url] = Processed.before.row
       /\ fingerprints[Processed.before.url] = Processed.before.fingerprint

\* C17: every way detect_changes ends returns a result whose success flag
\* is true exactly when its error list is empty; a failure of the load of
\* the stored books returns a result with success false and the message of
\* the failure in errors.
C17_DetectChangesAlwaysReturns ==
    [][/\ (pc # "idle" \/ runs' = runs + 1) /\ pc' = "idle"
          => /\ result' # None
             /\ result'[1].success <=> Len(result'[1].errors) = 0
       /\ StartRun(TRUE)
          => /\ pc' = "idle"
             /\ result' # None
             /\ ~result'[1].success
             /\ result'[1].errors = <<LoadFailure>>]_vars

\* A run has returned the failure of the load of the stored books.
C17_Witness ==
    /\ pc = "idle"
    /\ runs > 0
    /\ result # None
    /\ ~result[1].success
    /\ result[1].errors = <<LoadFailure>>

\* The step is an insert_book.
InsertBookStep == insert_result = None /\ insert_result' # None
InsertedBook == PageFields(insert_result'[1].source_url,
                           upstream[insert_result'[1].source_url])

C23_PartialUpdateIsRepaired ==
    (/\ last # None
     /\ Processed.refused = "none"
     /\ Processed.current # None
     /\ ValidBookData(Processed.before.stored)
     /\ Processed.before.fingerprint =
            Some(generate_complete_fingerprint(Processed.current[1]))
     /\ \E f \in DiffSet :
            Processed.before.stored[f] # Processed.current[1][f]) =>
        /\ Processed.outcome = "changed"
        /\ Processed.changes # <<>>

(***************************************************************************)
(* Properties of the crawler, checked under SpecCrawl.                     *)
(***************************************************************************)
\* C8: at every instant the state file is absent or holds a complete
\* CrawlState document, never an empty or partial one.
C8_StateFileAtomic ==
    state_file # EmptyFile /\ state_file # PartialFile

\* C9: the first page an invocation fetches is the persisted
\* last_processed_page when it resumes and the state file holds a document,
\* and page 1 when it does not resume, finds no state file or cannot load
\* it; a state file that cannot be loaded gives a state with page 1 and
\* books_processed 0.
C9_StartPageRule ==
    /\ first_page # None
       => first_page[1] =
              IF entry.resume /\ IsDocument(entry.file)
              THEN entry.file[2].last_processed_page ELSE 1
    /\ (/\ cpc = "loop"
        /\ first_page = None
        /\ entry.resume
        /\ entry.file \in {EmptyFile, PartialFile})
       => /\ crawl_state.last_processed_page = 1
          /\ crawl_state.books_processed = 0
          /\ loop_page_num = 1

\* A resumed invocation has fetched its first page, one past page 1.
C9_Witness ==
    /\ first_page # None
    /\ entry.resume
    /\ IsDocument(entry.file)
    /\ first_page[1] > 1

\* C10: a crawl restarted after a crash with resume enabled and a complete
\* state file, no page having failed, starts at the persisted page and
\* ends with books_processed equal to the number of books of the catalog.
C10_ResumeCountsWholeCatalog ==
    (/\ cpc = "returned"
     /\ entry.after_crash
     /\ entry.resume
     /\ IsDocument(entry.file)
     /\ page_failures = 0
     /\ crawl_state.total_pages = Some(TotalPages))
    => /\ first_page = Some(entry.file[2].last_processed_page)
       /\ crawl_state.books_processed = TotalPages * BooksPerPage

(***************************************************************************)
(* Properties of the HTTP requests, checked under SpecFetch.               *)
(***************************************************************************)

\* C19: every request to the upstream site takes a token of the one shared
\* rate pacer first, so no more than rate_limit_per_second requests start
\* within one second, whoever sends them.
C19_RequestsPacedBySharedPacer ==
    started <= rate_limit_per_second

\* C20: a 404 is terminal for the fetcher: it is the only request sent for
\* the URL, with no retry and no backoff; every other failure is retried
\* until the attempt budget is exhausted.
C20_NotFoundIsTerminal ==
    (caller \in ThroughRetry /\ answers # <<>>) =>
        LET n == Len(answers)
        IN  /\ \A i \in 1..n :
                   answers[i] = "404" =>
                       /\ i = n
                       /\ fetch_pc = "raised"
                       /\ (i = 1 => delays = <<>>)
            /\ answers[n] \in Failures \ {"404"} =>
                   /\ fetch_pc \in {"sleep", "get", "raised"}
                   /\ fetch_pc = "raised" => n = retry_attempts + 1

\* The sleeps after the first n failed attempts: retry_delay * 2^k for
\* k = 0 .. n-1.
ExpectedDelays(n) == [k \in 1..n |-> retry_delay * (2 ^ (k - 1))]

RetryBudget ==
    (caller \in ThroughRetry) =>
        LET n == Len(answers)
        IN  /\ n <= retry_attempts + 1
            /\ \A i \in 1..(n - 1) : answers[i] \in Failures
            /\ fetch_pc = "returned" =>
                   /\ n >= 1
                   /\ answers[n] = "200"
                   /\ delays = ExpectedDelays(n - 1)
            /\ fetch_pc = "sleep" =>
                   /\ n = attempt + 1
                   /\ n <= retry_attempts
                   /\ answers[n] \in Failures
                   /\ delays = ExpectedDelays(n)
            /\ fetch_pc = "get" =>
                   /\ n = attempt
                   /\ delays = ExpectedDelays(n)
            /\ fetch_pc = "raised" =>
                   /\ n = retry_attempts + 1
                   /\ answers[n] \in Failures
                   /\ last_exception = Some(answers[n])
                   /\ delays = ExpectedDelays(retry_attempts)

\* C21: _make_request_with_retry sends at most retry_attempts + 1 requests
\* for one URL, returns the first response that does not raise, sleeps
\* retry_delay * 2^k after failed attempt k while attempts remain, raises the
\* last exception after the last failed attempt, and always terminates.
C21_RetryBudget ==
    /\ []RetryBudget
    /\ (caller \in ThroughRetry /\ fetch_pc = "get") ~> AtRest

C21_Witness ==
    /\ caller \in ThroughRetry
    /\ fetch_pc = "raised"
    /\ answers = <<"timeout", "500", "404", "timeout">>
    /\ delays = <<1, 2, 4>>

(***************************************************************************)
(* Properties of the Differ, checked under SpecDiff.                       *)
(***************************************************************************)

\* C22: a book page whose price is malformed or missing gives a record with
\* price 0: the fetch of the book does not fail and the reconciler does not
\* take the book for absent.
C22_PriceParseFallback ==
    (last # None /\ Processed.before.answer = "p3"
                 /\ ValidBookData(Processed.before.stored)) =>
        /\ Processed.current # None
        /\ Processed.current[1].price_including_tax = "0.00"
        /\ Processed.outcome \notin {"removed", "error"}

\* The records of the last processed book that are about field f.
RecordsAbout(f) ==
    {i \in 1..Len(Processed.changes) : Processed.changes[i].field_name = f}

\* C24: a difference in price_excluding_tax gives a price_change record of
\* severity high for that field, a difference in image_url an image_change
\* record of severity low, also when no other field differs.
C24_DifferCoversTheTable ==
    (last # None /\ Processed.current # None
                 /\ ValidBookData(Processed.before.stored)) =>
        LET stored == Processed.before.stored
            current == Processed.current[1]
        IN  /\ stored.price_excluding_tax # current.price_excluding_tax =>
                   \E i \in RecordsAbout("price_excluding_tax") :
                       /\ Processed.changes[i].change_type = "price_change"
                       /\ Processed.changes[i].severity = "high"
            /\ stored.image_url # current.image_url =>
                   \E i \in RecordsAbout("image_url") :
                       /\ Processed.changes[i].change_type = "image_change"
                       /\ Processed.changes[i].severity = "low"

\* C29: the records of one book's diff are appended in the order of the
\* fingerprint field list restricted to the differing fields, with and
\* without a stored fingerprint.
C29_RecordsInFieldOrder ==
    (last # None /\ Processed.changes # <<>>) =>
        LET stored == Processed.before.stored
            current == Processed.current[1]
            n == Len(Processed.changes)
        IN  /\ [i \in 1..n |-> Processed.changes[i].field_name] =
                   SelectSeq(<<"name", "description", "category",
                               "price_including_tax", "availability", "rating",
                               "number_of_reviews">>,
                             LAMBDA f : stored[f] # current[f])
            /\ Len(change_logs) >= Processed.before.logs + n
            /\ SubSeq(change_logs, Processed.before.logs + 1,
                      Processed.before.logs + n) = Processed.changes

C29_Witness ==
    /\ last # None
    /\ Processed.before.fingerprint = None
    /\ Len(Processed.changes) = 3
    /\ Processed.changes[1].field_name = "name"
    /\ Processed.changes[2].field_name = "availability"
    /\ Processed.changes[3].field_name = "rating"
    /\ Len(change_logs) >= 3

(***************************************************************************)
(* Properties of the page count, checked under SpecPages.                  *)
(***************************************************************************)

\* C27: for a catalog whose pages 1..N (1 <= N <= 1000) have books and whose
\* later pages have none, _get_total_pages returns N when the front page
\* shows a next button and 1 when it shows none; the search terminates.
C27_PageCount ==
    (pages # None /\ pages.front_page_ok /\ pages.failing = {}) =>
        /\ pages.total \in 1..search_high
        /\ pages.result # None =>
               pages.result =
                   Some(IF pages.next_button THEN pages.total ELSE 1)

C27_Witness ==
    /\ pages # None
    /\ pages.front_page_ok /\ pages.next_button /\ pages.failing = {}
    /\ pages.total = 737
    /\ pages.result = Some(737)

(***************************************************************************)
(* Properties of the one-shot mode and the daily report, checked under     *)
(* SpecOnce.                                                               *)
(***************************************************************************)

C26_OneShotReconcilesThenReports ==
    (once # None /\ once.pc = "exited") =>
        /\ once.events # <<>>
        /\ once.events[1] = "reconcile"
        /\ once.generate_daily_reports =>
               once.events = <<"reconcile", "report">>

(***************************************************************************)
(* Properties of the batches of phase D, checked under SpecBatch.          *)
(***************************************************************************)

\* C28: the loaded books are split into consecutive batches of at most
\* batch_size books, every book is processed in exactly one batch, a batch
\* starts only when every book of the batches before it has finished, and
\* never more than max_concurrent_books books are being processed.
C28_SequentialBatches ==
    batch # None =>
        LET books_ == 1..batch.total_books
            BatchNo(k) == ((k - 1) \div batch.batch_size) + 1
        IN  /\ \A k \in books_ :
                   /\ batch.times[k] <= 1
                   /\ batch.times[k] = 1 => batch.batch_of[k] = BatchNo(k)
                   /\ batch.pc = "done" => batch.times[k] = 1
            /\ Cardinality(batch.slice) <= batch.batch_size
            /\ batch.pc = "batch" =>
                   /\ \A k \in batch.slice : BatchNo(k) = batch.batch_no
                   /\ \A k \in books_ :
                          BatchNo(k) < batch.batch_no => batch.times[k] = 1
            /\ batch.in_progress \subseteq batch.slice
            /\ Cardinality(batch.in_progress) <= max_concurrent_books

C28_Witness ==
    /\ batch # None
    /\ batch.total_books = 5
    /\ batch.batch_size = 2
    /\ batch.pc = "batch"
    /\ batch.batch_no = 3
    /\ batch.in_progress = {5}
    /\ \A k \in 1..4 : batch.times[k] = 1

(***************************************************************************)
(* Properties of the restore walk, checked under SpecWalk.                 *)
(***************************************************************************)

C31_TerminatesBothWays ==
    loop # None =>
        /\ loop.pc = "returned" => loop.page_num > loop.total_pages
        /\ \E threshold \in 1..(LoopPages - 2) :
               loop.empties > threshold =>
                   ~(loop.pc = "loop" /\ loop.page_num <= loop.total_pages)

\* C32: a page failure leaves the crawl going to the last page and appends
\* an error to the error list of the CrawlState: when crawl_all_books has
\* returned, after its final save, the state file holds the errors of the
\* crawl.
C32_PageErrorsArePersisted ==
    (loop # None /\ loop.pc = "returned") =>
        /\ loop.page_num = loop.total_pages + 1
        /\ loop.file # None
        /\ FailedPages(loop.errors) \subseteq FailedPages(loop.file[1].errors)

\* The last_processed_page crawl_all_books entered its loop with.
EntryCursor ==
    IF loop.resume /\ loop.entry_file # None
    THEN loop.entry_file[1].last_processed_page ELSE 1

\* C33: last_processed_page is a page that was fetched and parsed: a
\* cursor the invocation moved is on none of the pages whose crawl failed.
C33_CursorOnlyOverCrawledPages ==
    (/\ loop # None
     /\ loop.pc \in {"loop", "returned"}
     /\ loop.crawl_state.last_processed_page # EntryCursor) =>
        loop.crawl_state.last_processed_page \notin FailedPages(loop.errors)

(***************************************************************************)
(* The health score against its formula, checked under SpecOnce.           *)
(***************************************************************************)

\* C34: for all non-negative counts, books_checked = 0 included, the score
\* of a report is min(success_rate + change_bonus, 1.0) rounded to two
\* decimals, with success_rate = 1 - errors_count / max(books_checked, 1)
\* and change_bonus = min(changes_detected / max(books_checked, 1), 0.1);
\* in hundredths, over the denominator 10 * max(books_checked, 1).
C34_HealthScoreFormula ==
    (once # None /\ once.score # None) =>
        LET books_checked == once.counts[1][1]
            changes_detected == once.counts[1][2]
            errors_count == once.counts[1][3]
            d == 10 * Max(books_checked, 1)
            success_rate == d - 10 * errors_count
            change_bonus == Min(10 * changes_detected, Max(books_checked, 1))
        IN  once.score[1] =
                RoundHalfEven(100 * Min(success_rate + change_bonus, d), d)

(***************************************************************************)
(* Further properties of the reconciler, checked under Spec.               *)
(***************************************************************************)

\* C35: when Phase D finds no field difference for a book that has a
\* fingerprint (the fingerprint is that of the current record, or every
\* diff-set field of the row equals the current record's), it writes
\* nothing for the book: no ChangeLog is appended, the row with its removed
\* mark and the fingerprint are what they were.
C35_NoDifferenceNoWrite ==
    (/\ last # None
     /\ Processed.current # None
     /\ Processed.before.fingerprint # None
     /\ \/ Processed.before.fingerprint =
               Some(generate_complete_fingerprint(Processed.current[1]))
        \/ \A f \in DiffSet :
               Processed.before.stored[f] = Processed.current[1][f])
    => /\ Processed.outcome = "unchanged"
       /\ Processed.changes = <<>>
       /\ Len(change_logs) = Processed.before.logs
       /\ books[Processed.before.url] = Processed.before.row
       /\ fingerprints[Processed.before.url] = Processed.before.fingerprint

\* A fingerprinted book was processed and left alone although its row
\* differs from the current record: the fingerprint is the current one.
C35_Witness ==
    /\ last # None
    /\ Processed.outcome = "unchanged"
    /\ Processed.before.fingerprint # None
    /\ Processed.before.stored # Processed.current[1]
    /\ books[Processed.before.url] = Processed.before.row

\* C36: the ChangeLogs of a book are appended before its row is updated and
\* its fingerprint upserted: whenever Phase D found changes for a book and
\* the stored fingerprint is that of the current record, the ChangeLogs of
\* the diff are in the change log.
C36_RecordsBeforeFingerprint ==
    (/\ last # None
     /\ Processed.outcome = "changed"
     /\ fingerprints[Processed.before.url] =
            Some(generate_complete_fingerprint(Processed.current[1])))
    => LET n == Len(Processed.changes)
       IN  /\ Len(change_logs) = Processed.before.logs + n
           /\ SubSeq(change_logs, Processed.before.logs + 1,
                     Processed.before.logs + n) = Processed.changes

\* The sum of the counts of a breakdown.
RECURSIVE SumOver(_, _)
SumOver(counts, keys) ==
    IF keys = {} THEN 0
    ELSE LET k == CHOOSE x \in keys : TRUE
         IN  counts[k] + SumOver(counts, keys \ {k})

\* The new_book ChangeLogs appended since the run started.
NewBookLogsOfRun ==
    {i \in (hist.logs + 1)..Len(change_logs) :
        change_logs[i].change_type = "new_book"}

\* C37: in the result of a run in which Phase D ran, changes_detected is
\* the sum of changes_by_type plus removed_books and the sum of
\* changes_by_severity plus removed_books; the new_book ChangeLogs of the
\* restore and discovery walks are counted in new_books and in none of
\* changes_detected, changes_by_type and changes_by_severity.
C37_AccountingIdentity ==
    (pc = "idle" /\ result # None /\ result[1].total_books_checked > 0) =>
        LET r == result[1]
        IN  /\ r.changes_detected =
                   SumOver(r.changes_by_type, ChangeTypes) + r.removed_books
            /\ r.changes_detected =
                   SumOver(r.changes_by_severity, Severities) + r.removed_books
            /\ r.changes_by_type["new_book"] = 0
            /\ r.new_books = Cardinality(NewBookLogsOfRun)

\* A run restored or discovered a book, marked another removed and returned.
C37_Witness ==
    /\ pc = "idle"
    /\ result # None
    /\ result[1].total_books_checked > 0
    /\ result[1].new_books > 0
    /\ result[1].removed_books > 0
    /\ NewBookLogsOfRun # {}

\* The row of u bears the removed mark.
MarkedRemoved(bks, u) == bks[u] # None /\ bks[u][1].crawl_status = "removed"

\* C38: the removed mark is monotone: a row marked removed stays in the
\* store with its mark through every step of a reconciliation run, also
\* through the step that updates the row after its page answered again.
C38_RemovedMarkIsMonotone ==
    [][(pc # "idle" \/ runs' = runs + 1)
       => \A u \in URLS : MarkedRemoved(books, u) => MarkedRemoved(books', u)]_vars

\* Phase D has updated, from a page that answers again, a row marked
\* removed by an earlier run, and the mark is still there.
C38_Witness ==
    /\ last # None
    /\ Processed.outcome = "changed"
    /\ Processed.refused = "none"
    /\ Processed.before.row[1].crawl_status = "removed"
    /\ books[Processed.before.url][1].data = Processed.current[1]
    /\ MarkedRemoved(books, Processed.before.url)

(***************************************************************************)
(* A crawl after a finished one, checked under SpecCrawl.                  *)
(***************************************************************************)

\* The state file the invocation found was saved by a crawl that reached
\* the last page of the catalog the invocation sees.
FoundFinishedCrawl ==
    /\ IsDocument(entry.file)
    /\ crawl_state.total_pages # None
    /\ entry.file[2].total_pages = crawl_state.total_pages
    /\ entry.file[2].last_processed_page = crawl_state.total_pages[1]

\* C39: a crawl_all_books that resumes from the state file of a crawl that
\* reached the final page starts at page total_pages and fetches that page
\* only; an invocation that fetches an earlier page after such a crawl
\* does not resume or found no state file.
C39_ResumeAfterFinishedCrawl ==
    /\ (/\ cpc \in {"loop", "save", "dump", "close", "returned"}
        /\ entry.resume
        /\ FoundFinishedCrawl)
       => /\ loop_page_num >= crawl_state.total_pages[1]
          /\ first_page # None => first_page = crawl_state.total_pages
          /\ cpc = "returned" => first_page = crawl_state.total_pages
    /\ (/\ cpc \in {"loop", "save", "dump", "close", "returned"}
        /\ FoundFinishedCrawl
        /\ first_page # None
        /\ first_page[1] < crawl_state.total_pages[1])
       => ~entry.resume

\* A resumed crawl after a finished one over several pages has returned,
\* having fetched the last page only.
C39_Witness ==
    /\ cpc = "returned"
    /\ entry.resume
    /\ FoundFinishedCrawl
    /\ crawl_state.total_pages = Some(TotalPages)
    /\ first_page = Some(TotalPages)
    /\ loop_page_num = TotalPages + 1

(***************************************************************************)
(* The cleanup job beside a restore, checked under SpecClean.              *)
(***************************************************************************)

\* C40: in every interleaving of the cleanup job with the restore walk the
\* cleanup deletes a fingerprint only while its book row is absent, and
\* when both have ended no book is in the store without a fingerprint.
C40_CleanupSparesRestoredBooks ==
    clean # None =>
        /\ clean.deleted_with_row = {}
        /\ (clean.job.pc = "done" /\ clean.run.pc = "done")
           => \A u \in URLS : clean.books[u] => clean.fingerprints[u]

====
